---- MODULE Spec2Model ----
(***************************************************************************)
(* Crawl orchestration engine of aIFzzf/Crawler: the per-domain rate       *)
(* limiter, the request executor (retry / backoff, proxy, headers and      *)
(* session), the task scheduler, the task queue and the spider, as state   *)
(* machines translated from the Python sources.                            *)
(*                                                                         *)
(* Time is a discrete clock; one second is TicksPerSecond ticks.  Each     *)
(* coroutine runs atomically between two of its await points, as it does   *)
(* on the single-threaded asyncio event loop.                              *)
(***************************************************************************)
EXTENDS Integers, Sequences, FiniteSets, TLC

(***************************************************************************)
(* Bounds of the model.                                                    *)
(***************************************************************************)
TicksPerSecond == 2
MaxTime == 3
NumAcquirers == 2
MaxCalls == 5
MaxRetriesBound == 3
MaxDelay == 2
MaxPolicyCalls == 2
MaxCloses == 2
MaxTasks == 3
MaxPush == 3
NumConsumers == 2
MaxPages == 3

\* defaults of RequestManager.__init__
DefaultMaxRetries == 3
DefaultDelay == 1

Domains == {"a.com", "b.org"}
Acquirers == 1..NumAcquirers
\* requests-per-second values whose interval 1.0 / rate is a whole number of ticks
RateValues == {r \in 1..TicksPerSecond : TicksPerSecond % r = 0}

VARIABLES
    clock,          \* datetime.now(), in ticks
    \* ---- RateLimiter (crawler/crawler_core/rate_limiter.py)
    rates,          \* self.rates: dict domain -> requests per second
    last_request,   \* self.last_request: dict domain -> time
    acq,            \* per caller of acquire: where it is in the coroutine
    done,           \* history: the times of the last two completions per domain
    everOverlap,    \* history: two acquire calls on the domain were ever in flight together
    calls,          \* history: number of acquire and update_rate calls made so far
    \* ---- RequestManager (crawler/crawler_core/request_manager.py, crawler/core.py)
    rmClass,        \* which of the two RequestManager classes the executor is,
                    \* "none" before it is constructed
    max_retries,    \* self.max_retries
    delay,          \* self.delay
    req,            \* per caller of make_request: where it is in the coroutine
    policyCalls,    \* history: number of set_retry_policy and set_proxy calls made so far
    proxy,          \* self.proxy
    headers,        \* self.headers: the default headers
    session,        \* self._session (self.session in core.py): 0 is None, n the n-th
                    \* ClientSession created
    sessions,       \* history: number of ClientSessions created so far
    closed,         \* history: the sessions whose close() was called
    closer,         \* the caller of close(): where it is in the coroutine
    closes,         \* history: number of close calls made so far
    \* ---- TaskScheduler (crawler/task_manager/task_scheduler.py)
    scheduled_tasks,\* self.scheduled_tasks: dict task_id -> (task, schedule_time), in
                    \* insertion order; a task is written as its serial number
    running,        \* self.running
    loop,           \* the coroutine of start(): where it is
    issued,         \* history: per schedule_task call, the ID returned and the time asked
    dispatched,     \* history: the tasks handed to _execute_task, in order
    cancelled,      \* history: the tasks removed by cancel_task
    missed,         \* history: the tasks accepted, not cancelled and due at a pass of the
                    \* loop that the pass did not dispatch
    lastCancel,     \* the cancel_task call that has just returned, and what it met
    \* ---- QueueManager (quant_crawler/task_manager/queue_manager.py) and the queue
    \* ---- of TaskManager (crawler/core.py)
    queue,          \* self.queue: the items of the asyncio.Queue, each a pushed task
                    \* object with the serial number of its push
    getters,        \* the futures of the callers suspended in queue.get(), in order
    cons,           \* per caller of pop_task: where it is in the coroutine
    active_tasks,   \* self.active_tasks: dict id(task) -> task, as its key set
    pushed,         \* history: number of completed push_task calls
    popped,         \* history: what the pop_task calls returned, in order of return
    \* ---- Spider (crawler/crawler_core/spider.py)
    sp,             \* the caller of crawl or crawl_with_pagination: where it is in the
                    \* coroutine, its locals, and the history of the call
    \* ---- calls of functions without state
    validated,      \* the last call of validate_url: its argument and its result
    \* ---- ContentAnalyzer (quant_crawler/crawler_core/content_analyzer.py)
    analyzer,       \* the call of analyze_page: the page, the patterns appended,
                    \* self.patterns after scoring and the list returned
    suggested       \* the call of get_crawl_suggestions: its argument and its result

rlVars == <<rates, last_request, acq, done, everOverlap, calls>>
rmVars == <<rmClass, max_retries, delay, req, policyCalls, proxy, headers, session, sessions,
           closed, closer, closes>>
tsVars == <<scheduled_tasks, running, loop, issued, dispatched, cancelled, missed, lastCancel>>
qVars == <<queue, getters, cons, active_tasks, pushed, popped>>
spVars == <<sp>>
fnVars == <<validated, analyzer, suggested>>
vars == <<clock, rlVars, rmVars, tsVars, qVars, spVars, fnVars>>

(***************************************************************************)
(* Python dict helpers: a dict is a function whose DOMAIN is its key set.  *)
(***************************************************************************)
DictSet(dict, k, v) == [x \in (DOMAIN dict) \cup {k} |-> IF x = k THEN v ELSE dict[x]]

(***************************************************************************)
(* RateLimiter                                                             *)
(***************************************************************************)
\* 1.0 / self.rates[domain], in ticks
Interval(r) == TicksPerSecond \div r

IdleAcq == [pc |-> "idle", domain |-> "a.com", now |-> 0, wake |-> 0]

InFlight(d) == {q \in Acquirers : acq[q].pc = "sleeping" /\ acq[q].domain = d}

\* history bookkeeping of one completion of acquire(d) at the current time
Complete(d) ==
    done' = [done EXCEPT ![d] = IF Len(@) < 2 THEN Append(@, clock) ELSE <<@[2], clock>>]

\* the value acquire stores in self.last_request[domain] at line 27: the
\* local `now` read at line 21, before any sleep
StoredTime(now, completion) == now

\* line 18: `if domain not in self.rates`
UnlimitedNever(d) == FALSE
Unlimited(d) == d \notin DOMAIN rates

\* line 25: the time at which asyncio.sleep(1.0 / rate - time_diff) ends
SleepUntilNow(now, last, interval) == now
SleepUntil(now, last, interval) == now + (interval - (now - last))

\* acquire(domain) from its entry to its first await, or to its return
AcquireStart(p, d) ==
    /\ acq[p].pc = "idle"
    /\ calls < MaxCalls
    /\ calls' = calls + 1
    /\ IF Unlimited(d)
       THEN \* line 18-19: return True
            /\ Complete(d)
            /\ UNCHANGED <<rates, last_request, acq, everOverlap>>
       ELSE LET now == clock
                limited == /\ d \in DOMAIN last_request
                           /\ now - last_request[d] < Interval(rates[d])
                ov == InFlight(d) # {}
            IN  /\ everOverlap' = [everOverlap EXCEPT ![d] = @ \/ ov]
                /\ IF limited
                   THEN \* line 25: await asyncio.sleep(1.0 / rate - time_diff)
                        /\ acq' = [acq EXCEPT ![p] =
                                     [pc |-> "sleeping", domain |-> d, now |-> now,
                                      wake |-> SleepUntil(now, last_request[d],
                                                          Interval(rates[d]))]]
                        /\ UNCHANGED <<rates, last_request, done>>
                   ELSE \* line 27-28
                        /\ last_request' = DictSet(last_request, d, StoredTime(now, clock))
                        /\ Complete(d)
                        /\ UNCHANGED <<rates, acq>>
    /\ UNCHANGED <<clock, rmVars, tsVars, qVars, spVars, fnVars>>

\* acquire(domain) from the end of its sleep to its return
AcquireWake(p) ==
    /\ acq[p].pc = "sleeping"
    /\ clock >= acq[p].wake
    /\ last_request' = DictSet(last_request, acq[p].domain,
                               StoredTime(acq[p].now, clock))
    /\ Complete(acq[p].domain)
    /\ acq' = [acq EXCEPT ![p] = IdleAcq]
    /\ UNCHANGED <<clock, rates, everOverlap, calls, rmVars, tsVars, qVars, spVars, fnVars>>

\* update_rate(domain, requests_per_second)
UpdateRate(d, r) ==
    /\ calls < MaxCalls
    /\ calls' = calls + 1
    /\ rates' = DictSet(rates, d, r)
    \* the completion history is kept per configured rate
    /\ done' = [done EXCEPT ![d] = <<>>]
    /\ UNCHANGED <<clock, last_request, acq, everOverlap, rmVars, tsVars, qVars, spVars, fnVars>>

\* time passes
AdvanceClock ==
    /\ clock < MaxTime
    /\ clock' = clock + 1
    /\ UNCHANGED <<rlVars, rmVars, tsVars, qVars, spVars, fnVars>>

(***************************************************************************)
(* RequestManager.  A response is one of                                   *)
(*   ok            status 200                                              *)
(*   status_err    a status >= 400                                         *)
(*   status_other  a status that is neither 200 nor >= 400                 *)
(*   client_error  session.request raised aiohttp.ClientError              *)
(*   other_error   session.request raised another Exception                *)
(* and the text of the response to the i-th request is written i.          *)
(***************************************************************************)
\* the coroutines calling make_request
RequestCallers == {1}
Outcomes == {"ok", "status_err", "status_other", "client_error", "other_error"}
\* the failures the retry policy is about: non-success status or transport error
Failures == {"status_err", "status_other", "client_error"}

HeaderNames == {"User-Agent", "Accept"}
\* self.headers of __init__, lines 18-20
DefaultHeaders == [k \in {"User-Agent"} |-> "Mozilla/5.0"]
NoHeaders == [k \in {} |-> ""]
\* the headers a caller may pass to make_request
CallerHeaders == [k \in HeaderNames |-> IF k = "User-Agent" THEN "bot" ELSE "text/html"]
HeaderDicts == {[k \in S |-> CallerHeaders[k]] : S \in SUBSET HeaderNames}
Proxies == {"http://localhost:8080"}

\* dict.update on a copy: the keys of b win
DictUpdate(a, b) == [k \in (DOMAIN a) \cup (DOMAIN b) |-> IF k \in DOMAIN b THEN b[k] ELSE a[k]]

\* merged_headers, lines 42-44
MergedHeadersDefaultsWin(defaults, given) == DictUpdate(given, defaults)
MergedHeaders(defaults, given) == DictUpdate(defaults, given)

IdleReq == [pc |-> "idle", attempt |-> 0, n |-> 0, sent |-> 0, log |-> <<>>,
            sleeps |-> <<>>, value |-> 0, error |-> "none",
            startMax |-> 0, startDelay |-> 0, changed |-> FALSE,
            \* the headers passed and the headers sent
            given |-> NoHeaders, hdrs |-> NoHeaders,
            \* the proxy at the start of the call; every request used it
            startProxy |-> "none", proxyKept |-> TRUE,
            \* the session found and the session held when the call started,
            \* whether the call created it, whether a close was under way
            had |-> 0, sess |-> 0, created |-> FALSE, quiet |-> TRUE,
            \* the session the request under way was issued on, and whether
            \* it was None or closed by then
            on |-> 0, dead |-> FALSE]

\* session.request(...) on the session held now: a request is sent unless the
\* session is None or closed
Issue(r) ==
    LET dead == session = 0 \/ session \in closed
    IN  [r EXCEPT !.pc = "request", !.on = session, !.dead = dead,
                  !.sent = IF dead THEN @ ELSE @ + 1,
                  !.proxyKept = @ /\ proxy = r.startProxy]

\* asyncio.sleep argument of the retry: self.delay * (attempt + 1)
BackoffConstant(d, attempt) == d
Backoff(d, attempt) == d * (attempt + 1)

\* `attempt < self.max_retries - 1`: another attempt follows this one
RetriesLeft(attempt) == attempt < max_retries - 1

Returned(r, text) == [r EXCEPT !.pc = "returned", !.value = text]
Raised(r, err) == [r EXCEPT !.pc = "raised", !.error = err]
Sleeping(r) == [r EXCEPT !.pc = "sleep",
                         !.sleeps = Append(@, Backoff(delay, r.attempt))]
\* the top of the for loop with the next value of range(self.max_retries),
\* or the statement after the loop
NextAttempt(r, afterLoop) ==
    IF r.attempt + 1 < r.n
    THEN Issue([r EXCEPT !.attempt = @ + 1])
    ELSE afterLoop

\* crawler_core/request_manager.py line 64
RaiseFailed(r) == Raised(r, "Failed to fetch")
\* core.py: the function body ends after the loop
ReturnNone(r) == [r EXCEPT !.pc = "returned", !.value = 0]

AfterLoop(r) == IF rmClass = "crawler_core" THEN RaiseFailed(r) ELSE ReturnNone(r)

\* RequestManager(): __init__ of either class
NewRequestManager(cls) ==
    /\ rmClass = "none"
    /\ rmClass' = cls
    /\ max_retries' = DefaultMaxRetries
    /\ delay' = DefaultDelay
    \* core.py creates the session in __init__ and has no default headers
    /\ session' = IF cls = "core" THEN sessions + 1 ELSE 0
    /\ sessions' = IF cls = "core" THEN sessions + 1 ELSE sessions
    /\ headers' = IF cls = "core" THEN NoHeaders ELSE DefaultHeaders
    /\ UNCHANGED <<clock, rlVars, tsVars, qVars, spVars, fnVars, req, policyCalls, proxy, closed,
                   closer, closes>>

\* lines 39-40 of crawler_core/request_manager.py: the session is created when
\* there is none; core.py creates none in make_request
LazySession == rmClass = "crawler_core" /\ session = 0

\* make_request(url, headers = given) from its entry to the first session.request
MakeRequest(c, given) ==
    /\ rmClass # "none"
    /\ req[c].pc \in {"idle", "returned", "raised"}
    /\ session' = IF LazySession THEN sessions + 1 ELSE session
    /\ sessions' = IF LazySession THEN sessions + 1 ELSE sessions
    /\ LET r == [IdleReq EXCEPT !.n = max_retries, !.startMax = max_retries,
                                !.startDelay = delay, !.startProxy = proxy,
                                !.given = given,
                                !.hdrs = IF rmClass = "crawler_core"
                                         THEN MergedHeaders(headers, given) ELSE given,
                                !.had = session, !.sess = session',
                                !.created = LazySession,
                                !.quiet = closer.pc = "idle"]
           dead == session' = 0 \/ session' \in closed
       IN  req' = [req EXCEPT ![c] =
                     IF r.n > 0
                     THEN [r EXCEPT !.pc = "request", !.on = session', !.dead = dead,
                                    !.sent = IF dead THEN 0 ELSE 1]
                     ELSE AfterLoop(r)]
    /\ UNCHANGED <<clock, rlVars, tsVars, qVars, spVars, fnVars, rmClass, max_retries, delay, policyCalls,
                   proxy, headers, closed, closer, closes>>

\* crawler_core/request_manager.py lines 48-62: what one response leads to
ResponseCrawlerCore(r, o) ==
    CASE o = "ok" -> Returned(r, r.sent)
      [] o \in {"status_err", "status_other"} ->
            IF RetriesLeft(r.attempt) THEN Sleeping(r)
            ELSE IF o = "status_err"
                 THEN \* raise_for_status raises ClientResponseError, a ClientError:
                      \* caught at line 57 and re-raised at line 62
                      Raised(r, "ClientResponseError")
                 ELSE \* raise_for_status returns: the loop goes on
                      NextAttempt(r, RaiseFailed(r))
      [] o = "client_error" ->
            IF RetriesLeft(r.attempt) THEN Sleeping(r) ELSE Raised(r, "ClientError")
      [] OTHER -> Raised(r, "Exception")

\* core.py lines 53-61
ResponseCore(r, o) ==
    IF o \in {"ok", "status_err", "status_other"}
    THEN Returned(r, r.sent)
    ELSE IF r.attempt = max_retries - 1
         THEN Raised(r, IF o = "client_error" THEN "ClientError" ELSE "Exception")
         ELSE Sleeping(r)

\* the response (or the exception) of the request in flight arrives
Respond(c, o) ==
    /\ req[c].pc = "request"
    \* None has no attribute request; a closed session raises RuntimeError
    /\ req[c].dead => o = "other_error"
    /\ LET r == [req[c] EXCEPT !.log = Append(@, o)]
       IN  req' = [req EXCEPT ![c] =
                     IF rmClass = "crawler_core" THEN ResponseCrawlerCore(r, o)
                     ELSE ResponseCore(r, o)]
    /\ UNCHANGED <<clock, rlVars, tsVars, qVars, spVars, fnVars, rmClass, max_retries, delay, policyCalls,
                   proxy, headers, session, sessions, closed, closer, closes>>

\* the backoff sleep ends
SleepDone(c) ==
    /\ req[c].pc = "sleep"
    /\ req' = [req EXCEPT ![c] = NextAttempt(req[c], AfterLoop(req[c]))]
    /\ UNCHANGED <<clock, rlVars, tsVars, qVars, spVars, fnVars, rmClass, max_retries, delay, policyCalls,
                   proxy, headers, session, sessions, closed, closer, closes>>

\* the base class of an exception class: asyncio.CancelledError derives from
\* BaseException on the Python versions the package supports (>= 3.8), from
\* Exception before
BaseOfBefore38(cls) ==
    CASE cls \in {"ClientError", "CancelledError"} -> "Exception"
      [] OTHER -> "BaseException"
BaseOf(cls) ==
    CASE cls = "ClientError" -> "Exception"
      [] OTHER -> "BaseException"

\* issubclass(cls, handler)
RECURSIVE IsSubclass(_, _)
IsSubclass(cls, handler) ==
    \/ cls = handler
    \/ cls # "BaseException" /\ IsSubclass(BaseOf(cls), handler)

\* `except handler` catches an exception of class exc
Catches(handler, exc) == IsSubclass(exc, handler)

\* crawler_core/request_manager.py: CancelledError is raised at the await of
\* the request or of the sleep; `except aiohttp.ClientError` (line 57) is the
\* handler that counts a failed attempt, `except Exception` (lines 65-67)
\* re-raises what it catches
CancelledCrawlerCore(r) ==
    IF Catches("ClientError", "CancelledError")
    THEN ResponseCrawlerCore([r EXCEPT !.log = Append(@, "cancelled")], "client_error")
    ELSE Raised(r, "CancelledError")

\* core.py: the request is awaited in the try body of `except Exception`
\* (line 58), the sleep in the handler itself (line 61)
CancelledCore(r) ==
    IF r.pc = "request" /\ Catches("Exception", "CancelledError")
    THEN ResponseCore([r EXCEPT !.log = Append(@, "cancelled")], "other_error")
    ELSE Raised(r, "CancelledError")

\* task.cancel() on the task awaiting make_request: CancelledError is thrown
\* into the coroutine at the await where it is suspended
CancelRequest(c) ==
    /\ req[c].pc \in {"request", "sleep"}
    /\ req' = [req EXCEPT ![c] =
                 IF rmClass = "crawler_core" THEN CancelledCrawlerCore(req[c])
                 ELSE CancelledCore(req[c])]
    /\ UNCHANGED <<clock, rlVars, tsVars, qVars, spVars, fnVars, rmClass, max_retries, delay, policyCalls,
                   proxy, headers, session, sessions, closed, closer, closes>>

\* set_retry_policy(max_retries, delay)
SetRetryPolicy(m, d) ==
    /\ rmClass # "none"
    /\ policyCalls < MaxPolicyCalls
    /\ policyCalls' = policyCalls + 1
    /\ max_retries' = m
    /\ delay' = d
    /\ req' = [c \in RequestCallers |->
                 IF req[c].pc \in {"request", "sleep"}
                 THEN [req[c] EXCEPT !.changed = TRUE] ELSE req[c]]
    /\ UNCHANGED <<clock, rlVars, tsVars, qVars, spVars, fnVars, rmClass, proxy, headers, session, sessions,
                   closed, closer, closes>>

\* set_proxy(proxy)
SetProxy(p) ==
    /\ rmClass # "none"
    /\ policyCalls < MaxPolicyCalls
    /\ policyCalls' = policyCalls + 1
    /\ proxy' = p
    /\ UNCHANGED <<clock, rlVars, tsVars, qVars, spVars, fnVars, rmClass, max_retries, delay, req, headers,
                   session, sessions, closed, closer, closes>>

\* close() from its entry to `await self._session.close()`, or to its return
\* when there is no session
CloseStart ==
    /\ rmClass # "none"
    /\ closer.pc = "idle"
    /\ closes < MaxCloses
    /\ closes' = closes + 1
    /\ IF session # 0
       THEN /\ closed' = closed \cup {session}
            /\ closer' = [pc |-> "closing"]
       ELSE UNCHANGED <<closed, closer>>
    /\ UNCHANGED <<clock, rlVars, tsVars, qVars, spVars, fnVars, rmClass, max_retries, delay, req, policyCalls,
                   proxy, headers, session, sessions>>

\* close() after the await: self._session = None
CloseEnd ==
    /\ closer.pc = "closing"
    /\ session' = 0
    /\ closer' = [pc |-> "idle"]
    /\ UNCHANGED <<clock, rlVars, tsVars, qVars, spVars, fnVars, rmClass, max_retries, delay, req, policyCalls,
                   proxy, headers, sessions, closed, closes>>

InitRequestManager ==
    /\ rmClass = "none"
    /\ max_retries = DefaultMaxRetries
    /\ delay = DefaultDelay
    /\ req = [c \in RequestCallers |-> IdleReq]
    /\ policyCalls = 0
    /\ proxy = "none"
    /\ headers = NoHeaders
    /\ session = 0
    /\ sessions = 0
    /\ closed = {}
    /\ closer = [pc |-> "idle"]
    /\ closes = 0

NextRequestManager ==
    \/ \E cls \in {"crawler_core", "core"} : NewRequestManager(cls)
    \/ \E c \in RequestCallers : MakeRequest(c, NoHeaders)
    \/ \E c \in RequestCallers, o \in Outcomes : Respond(c, o)
    \/ \E c \in RequestCallers : SleepDone(c)
    \/ \E m \in 0..MaxRetriesBound, d \in 0..MaxDelay : SetRetryPolicy(m, d)

\* the retry policy and the proxy are set while calls are under way
NextRequestConfig ==
    \/ NextRequestManager
    \/ \E p \in Proxies : SetProxy(p)

\* calls with headers, and close()
NextRequestSession ==
    \/ \E cls \in {"crawler_core", "core"} : NewRequestManager(cls)
    \/ \E c \in RequestCallers, given \in HeaderDicts : MakeRequest(c, given)
    \/ \E c \in RequestCallers, o \in Outcomes : Respond(c, o)
    \/ \E c \in RequestCallers : SleepDone(c)
    \/ CloseStart
    \/ CloseEnd

(***************************************************************************)
(* TaskScheduler                                                           *)
(***************************************************************************)
Digits == <<"0", "1", "2", "3", "4", "5", "6", "7", "8", "9">>

\* str(n) of a natural number
RECURSIVE Str(_)
Str(n) == IF n < 10 THEN Digits[n + 1] ELSE Str(n \div 10) \o Digits[(n % 10) + 1]

NoCancel == [id |-> "", result |-> FALSE, known |-> FALSE, gone |-> FALSE]

\* the task IDs a caller may pass to cancel_task
TaskIds == {Str(n) : n \in 0..MaxTasks}

Keys(tasks) == {tasks[i].id : i \in DOMAIN tasks}
Serials(tasks) == {tasks[i].task : i \in DOMAIN tasks}

\* the ID schedule_task mints: str(len(self.scheduled_tasks))
NewTaskId(tasks) == Str(Len(tasks))

\* dict[key] = value: a new key goes last, an existing key keeps its place
DictPut(tasks, e) ==
    IF e.id \in Keys(tasks)
    THEN [i \in DOMAIN tasks |-> IF tasks[i].id = e.id THEN e ELSE tasks[i]]
    ELSE Append(tasks, e)

\* del dict[key]
DictDel(tasks, id) == SelectSeq(tasks, LAMBDA e : e.id # id)

\* the schedule times callers ask for: whole seconds
ScheduleTimes == {t \in 0..MaxTime : t % TicksPerSecond = 0}

\* schedule_task(task, schedule_time); the task is the next serial number
ScheduleTask(t) ==
    /\ Len(issued) < MaxTasks
    /\ LET task_id == NewTaskId(scheduled_tasks)
           serial == Len(issued) + 1
       IN  /\ scheduled_tasks' = DictPut(scheduled_tasks,
                                         [id |-> task_id, task |-> serial, time |-> t])
           /\ issued' = Append(issued, [id |-> task_id, time |-> t])
    /\ lastCancel' = NoCancel
    /\ UNCHANGED <<clock, rlVars, rmVars, qVars, spVars, fnVars, running, loop, dispatched, cancelled, missed>>

\* the tasks issued under `id` that are no longer scheduled: dispatched or cancelled
Gone(id) ==
    {n \in DOMAIN issued :
        issued[n].id = id /\ (n \in cancelled \/ \E i \in DOMAIN dispatched : dispatched[i] = n)}

\* if task_id in self.scheduled_tasks
IsScheduled(id) == id \in Keys(scheduled_tasks)

\* cancel_task(task_id)
CancelTask(id) ==
    /\ IF IsScheduled(id)
       THEN /\ scheduled_tasks' = DictDel(scheduled_tasks, id)
            /\ cancelled' = cancelled \cup {e.task : e \in {scheduled_tasks[i] :
                                               i \in {j \in DOMAIN scheduled_tasks :
                                                        scheduled_tasks[j].id = id}}}
            /\ lastCancel' = [id |-> id, result |-> TRUE,
                              known |-> id \in Keys(scheduled_tasks), gone |-> Gone(id) # {}]
       ELSE /\ lastCancel' = [id |-> id, result |-> FALSE,
                              known |-> id \in Keys(scheduled_tasks), gone |-> Gone(id) # {}]
            /\ UNCHANGED <<scheduled_tasks, cancelled>>
    /\ UNCHANGED <<clock, rlVars, rmVars, qVars, spVars, fnVars, running, loop, issued, dispatched, missed>>

\* schedule_time <= now
DueAlways(e, now) == TRUE
Due(e, now) == e.time <= now

\* one pass of the while loop of start(), lines 45-51, up to the sleep:
\* every entry of the snapshot that is due is deleted and executed
\* (_execute_task has no await: the pass is not interrupted)
Pass(l) ==
    LET now == clock
        due == SelectSeq(scheduled_tasks, LAMBDA e : Due(e, now))
    IN  /\ scheduled_tasks' = SelectSeq(scheduled_tasks, LAMBDA e : ~Due(e, now))
        /\ dispatched' = dispatched \o [i \in DOMAIN due |-> due[i].task]
        /\ missed' = missed \cup
                {n \in DOMAIN issued :
                    /\ issued[n].time <= now
                    /\ n \notin cancelled
                    /\ \A i \in DOMAIN dispatched' : dispatched'[i] # n}
        /\ loop' = [loop EXCEPT ![l] = [pc |-> "sleeping", wake |-> now + TicksPerSecond,
                                         stopped |-> @.stopped,
                                         late |-> @.late \/ @.stopped]]

\* start(): self.running = True and the first pass
Start(l) ==
    /\ loop[l].pc = "off"
    /\ running' = TRUE
    /\ Pass(l)
    /\ lastCancel' = NoCancel
    /\ UNCHANGED <<clock, rlVars, rmVars, qVars, spVars, fnVars, issued, cancelled>>

\* asyncio.sleep(1) of start() ends: `while self.running` is tested again
LoopWake(l) ==
    /\ loop[l].pc = "sleeping"
    /\ clock >= loop[l].wake
    /\ IF running
       THEN Pass(l)
       ELSE /\ loop' = [loop EXCEPT ![l] = [pc |-> "off", wake |-> 0,
                                            stopped |-> FALSE, late |-> @.late]]
            /\ UNCHANGED <<scheduled_tasks, dispatched, missed>>
    /\ lastCancel' = NoCancel
    /\ UNCHANGED <<clock, rlVars, rmVars, qVars, spVars, fnVars, running, issued, cancelled>>

\* stop()
Stop ==
    /\ running
    /\ running' = FALSE
    /\ loop' = [l \in DOMAIN loop |->
                    [loop[l] EXCEPT !.stopped = @ \/ loop[l].pc = "sleeping"]]
    /\ lastCancel' = NoCancel
    /\ UNCHANGED <<clock, rlVars, rmVars, qVars, spVars, fnVars, scheduled_tasks, issued, dispatched,
                   cancelled, missed>>

\* the coroutines that may run start(); `stopped`: stop() was called while the
\* coroutine slept, `late`: it went through a pass of the loop after that
SchedulerLoops == {1, 2}
OffLoop == [pc |-> "off", wake |-> 0, stopped |-> FALSE, late |-> FALSE]

InitTaskScheduler ==
    /\ scheduled_tasks = <<>>
    /\ running = FALSE
    /\ loop = [l \in SchedulerLoops |-> OffLoop]
    /\ issued = <<>>
    /\ dispatched = <<>>
    /\ cancelled = {}
    /\ missed = {}
    /\ lastCancel = NoCancel

\* time passes for the scheduler
SchedulerClock ==
    /\ clock < MaxTime
    /\ clock' = clock + 1
    /\ lastCancel' = NoCancel
    /\ UNCHANGED <<rlVars, rmVars, qVars, spVars, fnVars, scheduled_tasks, running, loop, issued, dispatched,
                   cancelled, missed>>

\* one caller of start(), which calls it again only after it has returned
NextTaskScheduler ==
    \/ \E t \in ScheduleTimes : ScheduleTask(t)
    \/ \E id \in TaskIds : CancelTask(id)
    \/ Start(1)
    \/ LoopWake(1)
    \/ Stop
    \/ SchedulerClock

\* start() may be called again after stop() while an earlier call has not
\* returned; it is not called on a scheduler that is running
NextSchedulerRestart ==
    \/ \E t \in ScheduleTimes : ScheduleTask(t)
    \/ \E id \in TaskIds : CancelTask(id)
    \/ ~running /\ \E l \in SchedulerLoops : Start(l)
    \/ \E l \in SchedulerLoops : LoopWake(l)
    \/ Stop
    \/ SchedulerClock

(***************************************************************************)
(* The task queue: push_task and pop_task on an unbounded asyncio.Queue.   *)
(* queue.put never suspends; queue.get suspends on a future while the      *)
(* queue is empty, put wakes the first waiting getter, and a woken getter  *)
(* tests the queue again when it runs.                                     *)
(***************************************************************************)
TaskObjects == {"t1", "t2"}
Consumers == 1..NumConsumers

IdleCons == [pc |-> "idle", since |-> 0]

\* Queue.get_nowait(): the item returned and the items left
QueueTakeLast(q) == [item |-> q[Len(q)], rest |-> SubSeq(q, 1, Len(q) - 1)]
QueueTake(q) == [item |-> Head(q), rest |-> Tail(q)]

\* Queue._wakeup_next(self._getters): the first waiting getter's future is set
WakeNext(cs, gs) ==
    IF gs = <<>> THEN cs ELSE [cs EXCEPT ![Head(gs)].pc = "woken"]

\* push_task(task)
PushTask(obj) ==
    /\ pushed < MaxPush
    /\ queue' = Append(queue, [task |-> obj, n |-> pushed + 1])
    /\ cons' = WakeNext(cons, getters)
    /\ getters' = IF getters = <<>> THEN getters ELSE Tail(getters)
    /\ active_tasks' = active_tasks \cup {obj}
    /\ pushed' = pushed + 1
    /\ UNCHANGED <<clock, rlVars, rmVars, tsVars, spVars, fnVars, popped>>

\* pop_task returns with the item queue.get() took
PopReturn(c, waited) ==
    LET got == QueueTake(queue)
    IN  /\ queue' = got.rest
        /\ active_tasks' = active_tasks \ {got.item.task}
        /\ popped' = Append(popped, [n |-> got.item.n, by |-> c, waited |-> waited,
                                     since |-> IF waited THEN cons[c].since ELSE pushed])
        /\ cons' = [cons EXCEPT ![c] = IdleCons]
        /\ UNCHANGED getters

\* queue.get() finds the queue empty: a new future joins the getters
PopSuspend(c, since) ==
    /\ getters' = Append(getters, c)
    /\ cons' = [cons EXCEPT ![c] = [pc |-> "waiting", since |-> since]]
    /\ UNCHANGED <<queue, active_tasks, popped>>

\* pop_task() from its entry to its return or its first suspension
PopTask(c) ==
    /\ cons[c].pc = "idle"
    /\ IF queue = <<>> THEN PopSuspend(c, pushed) ELSE PopReturn(c, FALSE)
    /\ UNCHANGED <<clock, rlVars, rmVars, tsVars, spVars, fnVars, pushed>>

\* a getter whose future was set runs again
PopResume(c) ==
    /\ cons[c].pc = "woken"
    /\ IF queue = <<>> THEN PopSuspend(c, cons[c].since) ELSE PopReturn(c, TRUE)
    /\ UNCHANGED <<clock, rlVars, rmVars, tsVars, spVars, fnVars, pushed>>

InitQueue ==
    /\ queue = <<>>
    /\ getters = <<>>
    /\ cons = [c \in Consumers |-> IdleCons]
    /\ active_tasks = {}
    /\ pushed = 0
    /\ popped = <<>>

NextQueue ==
    \/ \E obj \in TaskObjects : PushTask(obj)
    \/ \E c \in Consumers : PopTask(c)
    \/ \E c \in Consumers : PopResume(c)

(***************************************************************************)
(* Spider.  A URL is written scheme://host followed by segments, each a    *)
(* separator character and a key; the segment of the page parameter also   *)
(* carries the page index.  make_request is seen from its caller: it       *)
(* returns the text of the page or raises after its retries.               *)
(***************************************************************************)
Seg(sep, key, page) == [sep |-> sep, key |-> key, page |-> page]
Url(scheme, host, tail) == [scheme |-> scheme, host |-> host, tail |-> tail]
NoUrl == Url("", "", <<>>)

\* the host alternatives of url_pattern: domain with TLD, localhost (the IP
\* alternative is not drawn)
HostMatches(h) == h \in Domains \cup {"localhost"}

\* validate_url: ^https?:// host (?:/?|[/?]\S+)$
ValidateUrl(u) ==
    /\ u.scheme \in {"http", "https"}
    /\ HostMatches(u.host)
    /\ \/ u.tail = <<>>
       \/ /\ u.tail[1].sep \in {"/", "?"}
          /\ \A i \in DOMAIN u.tail : u.tail[i].sep # " "

(***************************************************************************)
(* url_pattern on strings.  A string is a sequence of characters; each     *)
(* part of the pattern maps a position in the string to the set of         *)
(* positions at which a match of the part that starts there may end.       *)
(***************************************************************************)
LowerLetters == <<"a", "b", "c", "d", "e", "f", "g", "h", "i", "j", "k", "l", "m",
                  "n", "o", "p", "q", "r", "s", "t", "u", "v", "w", "x", "y", "z">>
UpperLetters == <<"A", "B", "C", "D", "E", "F", "G", "H", "I", "J", "K", "L", "M",
                  "N", "O", "P", "Q", "R", "S", "T", "U", "V", "W", "X", "Y", "Z">>
Whitespace == {" ", "\t", "\n", "\r", "\f"}

\* re.IGNORECASE: characters are compared after case folding
Fold(c) ==
    IF \E i \in DOMAIN UpperLetters : UpperLetters[i] = c
    THEN LowerLetters[CHOOSE i \in DOMAIN UpperLetters : UpperLetters[i] = c]
    ELSE c

\* [A-Z], \d, [A-Z0-9], [A-Z0-9-] and \S under IGNORECASE
IsLetter(c) == \E i \in DOMAIN LowerLetters : LowerLetters[i] = Fold(c)
IsDigit(c) == \E i \in DOMAIN Digits : Digits[i] = c
IsAlnum(c) == IsLetter(c) \/ IsDigit(c)
IsAlnumHyphen(c) == IsAlnum(c) \/ c = "-"
IsNonSpace(c) == c \notin Whitespace

\* a literal word
Literal(s, i, word) ==
    IF /\ i + Len(word) - 1 <= Len(s)
       /\ \A k \in DOMAIN word : Fold(s[i + k - 1]) = word[k]
    THEN {i + Len(word)} ELSE {}

\* https?://
SchemePart(s, i) ==
    UNION {Literal(s, j, <<":", "/", "/">>) :
             j \in Literal(s, i, <<"h", "t", "t", "p">>)
                   \cup Literal(s, i, <<"h", "t", "t", "p", "s">>)}

\* [A-Z0-9](?:[A-Z0-9-]{0,61}[A-Z0-9])?\.
LabelPart(s, i) ==
    {e \in (i + 2)..(Len(s) + 1) :
        /\ e - 1 - i <= 63
        /\ s[e - 1] = "."
        /\ IsAlnum(s[i])
        /\ IsAlnum(s[e - 2])
        /\ \A k \in i..(e - 2) : IsAlnumHyphen(s[k])}

\* (?: ... )+ of the label
RECURSIVE LabelsPart(_, _)
LabelsPart(s, i) ==
    LET one == LabelPart(s, i)
    IN  one \cup UNION {LabelsPart(s, j) : j \in one}

\* [A-Z]{2,6}\.?
TldPart(s, i) ==
    LET ends == {e \in (i + 2)..(i + 6) :
                    e <= Len(s) + 1 /\ \A k \in i..(e - 1) : IsLetter(s[k])}
    IN  ends \cup {e + 1 : e \in {x \in ends : x <= Len(s) /\ s[x] = "."}}

\* \d{1,3}
OctetPart(s, i) ==
    {e \in (i + 1)..(i + 3) : e <= Len(s) + 1 /\ \A k \in i..(e - 1) : IsDigit(s[k])}

\* \d{1,3}\.\d{1,3}\.\d{1,3}\.\d{1,3}
IpPart(s, i) ==
    LET Dot(j) == Literal(s, j, <<".">>)
        OctetDot(j) == UNION {Dot(k) : k \in OctetPart(s, j)}
    IN  UNION {UNION {UNION {OctetPart(s, c) : c \in OctetDot(b)} : b \in OctetDot(a)}
                 : a \in OctetDot(i)}

\* the three alternatives of the host
HostPart(s, i) ==
    UNION {TldPart(s, j) : j \in LabelsPart(s, i)}
        \cup Literal(s, i, <<"l", "o", "c", "a", "l", "h", "o", "s", "t">>)
        \cup IpPart(s, i)

\* (?::\d+)?
PortPart(s, i) ==
    {i} \cup {e \in (i + 2)..(Len(s) + 1) :
                 s[i] = ":" /\ \A k \in (i + 1)..(e - 1) : IsDigit(s[k])}

\* (?:/?|[/?]\S+)
TailPart(s, i) ==
    {i} \cup {e \in {i + 1} : i <= Len(s) /\ s[i] = "/"}
        \cup {e \in (i + 2)..(Len(s) + 1) :
                 s[i] \in {"/", "?"} /\ \A k \in (i + 1)..(e - 1) : IsNonSpace(s[k])}

\* $ without re.MULTILINE: the end of the string, or just before a newline
\* that is its last character
AtEnd(s, e) == e = Len(s) + 1 \/ (e = Len(s) /\ s[e] = "\n")

\* url_pattern.match(url) is not None
UrlPatternMatches(s) ==
    \E a \in SchemePart(s, 1) : \E b \in HostPart(s, a) : \E c \in PortPart(s, b) :
        \E e \in TailPart(s, c) : AtEnd(s, e)

\* the strings given to validate_url: a scheme, a host, a port and a rest
SchemeTexts ==
    {<<>>, <<"h", "t", "t", "p", ":", "/", "/">>, <<"h", "t", "t", "p", "s", ":", "/", "/">>,
     <<"H", "t", "T", "p", ":", "/", "/">>, <<"f", "t", "p", ":", "/", "/">>,
     <<"h", "t", "t", "p", ":", "/">>}
HostTexts ==
    {<<>>, <<"a", ".", "c", "o", "m">>, <<"A", ".", "C", "o", "m">>,
     <<"s", "u", "b", ".", "e", "x", "-", "1", ".", "o", "r", "g", ".">>,
     <<"l", "o", "c", "a", "l", "h", "o", "s", "t">>, <<"1", "0", ".", "0", ".", "0", ".", "1">>,
     <<"1", ".", "2", ".", "3">>, <<"a">>, <<"a", ".", "c">>,
     <<"-", "a", ".", "c", "o", "m">>, <<"a", "_", "b", ".", "c", "o", "m">>,
     <<"n", "o", "t", "_", "a", "_", "u", "r", "l">>}
PortTexts == {<<>>, <<":", "8", "0">>, <<":">>, <<":", "8", "a">>}
RestTexts ==
    {<<>>, <<"/">>, <<"/", "p", "a", "t", "h", "?", "q", "u", "e", "r", "y", "=", "1">>,
     <<"?", "q">>, <<"/", "a", " ", "b">>, <<"#", "f">>, <<"\n">>, <<"/", "x", "\n">>,
     <<"/", "\n", "x">>}
UrlTexts ==
    {a \o b \o c \o d : a \in SchemeTexts, b \in HostTexts, c \in PortTexts, d \in RestTexts}

NoValidation == [called |-> FALSE, url |-> <<>>, valid |-> FALSE]

\* validate_url(url); one call is followed
ValidateUrlCall(url) ==
    /\ ~validated.called
    /\ validated' = [called |-> TRUE, url |-> url, valid |-> UrlPatternMatches(url)]
    /\ UNCHANGED <<clock, rlVars, rmVars, tsVars, qVars, spVars, analyzer, suggested>>

NextValidateUrl == ~validated.called /\ \E url \in UrlTexts : ValidateUrlCall(url)

\* `if not self.validate_url(url)` of crawl
RejectsNothing(u) == FALSE
Rejects(u) == ~ValidateUrl(u)

\* "?" in base_url
HasQuestionMark(u) == \E i \in DOMAIN u.tail : u.tail[i].sep = "?"

\* page_url of crawl_with_pagination, page_param = "page"
PageUrl(base_url, current_page) ==
    [base_url EXCEPT !.tail = Append(@, Seg(IF HasQuestionMark(base_url) THEN "&" ELSE "?",
                                            "page", current_page))]

ListUrl == Url("http", "a.com", <<Seg("/", "list", 0)>>)
QueryUrl == Url("https", "b.org", <<Seg("?", "q", 0)>>)
FtpUrl == Url("ftp", "a.com", <<>>)
ItemUrl == Url("http", "a.com", <<Seg("/", "item", 0)>>)
SpaceUrl == Url("http", "b.org", <<Seg("/", "item", 0), Seg(" ", "x", 0)>>)

BaseUrls == {ListUrl, QueryUrl, FtpUrl}
CrawlUrls == {ListUrl, FtpUrl, SpaceUrl}
StartPages == {1, 2}
MaxPagesValues == -1..MaxPages
\* the lists page_parser may return
ParserOutputs == {<<>>, <<ItemUrl>>, <<ItemUrl, ItemUrl>>, <<SpaceUrl, ItemUrl>>,
                  <<ItemUrl, SpaceUrl, ItemUrl>>}
FetchOutcomes == {"ok", "fail"}

\* links[:100], line 147
LinkLimit == 100

\* an HTML document as html.parser sees it: the title element ("absent", or
\* "empty" when it has no single string, or its string), the meta elements
\* with their name and content attributes ("" when absent) and the a elements
\* with their href attribute, if any, and their text as whitespace and words
Document(title, metas, anchors) == [title |-> title, metas |-> metas, anchors |-> anchors]
Anchor(n) == [has_href |-> TRUE, href |-> "http://example.com/link" \o Str(n),
              text |-> <<" ", "Link", " ", Str(n), " ">>]
NoDocument == Document("absent", <<>>, <<>>)
TestPage ==
    Document("Test Page",
             <<[name |-> "description", content |-> "Test description"]>>,
             <<Anchor(1), Anchor(2)>>)
MetaPage ==
    Document("empty",
             <<[name |-> "keywords", content |-> "a"], [name |-> "", content |-> "b"],
               [name |-> "author", content |-> ""], [name |-> "keywords", content |-> "c"]>>,
             <<[has_href |-> FALSE, href |-> "", text |-> <<"top">>], Anchor(1),
               [has_href |-> TRUE, href |-> "", text |-> <<" ">>]>>)
LongPage == Document("Links", <<>>, [n \in 1..(LinkLimit + 1) |-> Anchor(n)])
Documents == {NoDocument, TestPage, MetaPage, LongPage}

\* str.strip() of a text given as whitespace and words
RECURSIVE StripLeft(_)
StripLeft(t) == IF t # <<>> /\ Head(t) = " " THEN StripLeft(Tail(t)) ELSE t
RECURSIVE StripRight(_)
StripRight(t) ==
    IF t # <<>> /\ t[Len(t)] = " " THEN StripRight(SubSeq(t, 1, Len(t) - 1)) ELSE t
Strip(t) == StripRight(StripLeft(t))

\* lines 124-125: soup.title.string if soup.title else ""
ParseTitle(doc) ==
    CASE doc.title = "absent" -> ""
      [] doc.title = "empty" -> "None"
      [] OTHER -> doc.title

\* lines 127-133: meta_tags[name] = content for every meta with both
RECURSIVE ParseMeta(_, _)
ParseMeta(metas, meta_tags) ==
    IF metas = <<>> THEN meta_tags
    ELSE LET meta == Head(metas)
         IN  ParseMeta(Tail(metas),
                       IF meta.name # "" /\ meta.content # ""
                       THEN [k \in (DOMAIN meta_tags) \cup {meta.name} |->
                                IF k = meta.name THEN meta.content ELSE meta_tags[k]]
                       ELSE meta_tags)

\* lines 135-143: every a element that has an href attribute
ParseLinks(anchors) ==
    LET found == SelectSeq(anchors, LAMBDA a : a.has_href)
    IN  [i \in DOMAIN found |-> [url |-> found[i].href, text |-> Strip(found[i].text)]]

\* parse(html), lines 121-148
Parse(html) ==
    LET links == ParseLinks(html.anchors)
    IN  [title |-> ParseTitle(html),
         meta_tags |-> ParseMeta(html.metas, <<>>),
         links |-> SubSeq(links, 1, IF Len(links) < LinkLimit THEN Len(links) ELSE LinkLimit)]

\* the dictionary crawl returns, lines 41-46
CrawlRecordOfPage(url, html, timestamp) ==
    [url |-> url, html |-> NoDocument, timestamp |-> timestamp, parsed_data |-> Parse(html)]
CrawlRecord(url, html, timestamp) ==
    [url |-> url, html |-> html, timestamp |-> timestamp, parsed_data |-> Parse(html)]

NoRecord == [url |-> NoUrl, html |-> NoDocument, timestamp |-> 0,
             parsed_data |-> [title |-> "", meta_tags |-> <<>>, links |-> <<>>]]

IdleSpider == [pc |-> "idle", op |-> "none", url |-> NoUrl, error |-> "none", html |-> 0,
               \* what a direct crawl returned, and the content make_request gave it
               value |-> NoRecord, got |-> NoDocument,
               base |-> NoUrl, start |-> 0, max |-> 0, current |-> 0,
               found |-> <<>>, idx |-> 0, results |-> <<>>,
               \* history of the call
               requests |-> 0, oks |-> 0, pages |-> <<>>, tried |-> <<>>, listed |-> 0,
               why |-> "none", at |-> 0,
               \* history: every crawl of the call that gave a record, in order
               log |-> <<>>]

\* crawl line 38: make_request(url) is called and awaited
Fetching(s, pc, u) == [s EXCEPT !.pc = pc, !.url = u, !.requests = @ + 1]

\* while current_page < start_page + max_pages
InRangeInclusive(s) == s.current <= s.start + s.max
InRange(s) == s.current < s.start + s.max

\* return results
Return(s) == [s EXCEPT !.pc = "returned"]

\* lines 105-107: the exception of the page crawl is caught, break
PageFailedDropsResults(s) == Return([s EXCEPT !.results = <<>>])
PageFailed(s) == Return(s)

\* the top of the while loop, up to the await of the page crawl
NextPage(s) ==
    IF ~InRange(s) THEN Return(s)
    ELSE LET u == PageUrl(s.base, s.current)
             t == [s EXCEPT !.pages = Append(@, s.current)]
         IN  IF Rejects(u)
             THEN \* crawl raises ValueError
                  PageFailed([t EXCEPT !.why = "page_failed", !.at = s.current])
             ELSE Fetching(t, "page", u)

\* `if not urls: break`
StopsPaginationNever(urls) == FALSE
StopsPagination(urls) == urls = <<>>

\* an entry of the history of crawls
Crawled(kind, url, page, pos, html) ==
    [kind |-> kind, url |-> url, page |-> page, pos |-> pos, html |-> html]

\* lines 97-98: results.append(content)
ChildCrawledFirst(s) ==
    [s EXCEPT !.results = <<[url |-> s.url, html |-> s.requests,
                             page |-> s.current, pos |-> s.idx]>> \o @,
              !.oks = @ + 1,
              !.tried = Append(@, "ok"),
              !.log = Append(@, Crawled("child", s.url, s.current, s.idx, s.requests))]
ChildCrawled(s) ==
    [s EXCEPT !.results = Append(@, [url |-> s.url, html |-> s.requests,
                                     page |-> s.current, pos |-> s.idx]),
              !.oks = @ + 1,
              !.tried = Append(@, "ok"),
              !.log = Append(@, Crawled("child", s.url, s.current, s.idx, s.requests))]

\* lines 99-101: the exception of a child crawl is caught, continue
ChildFailedSkipsRest(s, how) == [s EXCEPT !.tried = Append(@, how), !.idx = Len(s.found)]
ChildFailed(s, how) == [s EXCEPT !.tried = Append(@, how)]

\* the for loop over urls from its next element to the await of a child
\* crawl; after the last element current_page += 1 and the while loop goes on
RECURSIVE NextChild(_)
NextChild(s) ==
    IF s.idx >= Len(s.found)
    THEN NextPage([s EXCEPT !.current = @ + 1])
    ELSE LET u == s.found[s.idx + 1]
             t == [s EXCEPT !.idx = @ + 1]
         IN  IF Rejects(u)
             THEN NextChild(ChildFailed(t, "invalid"))
             ELSE Fetching(t, "child", u)

SpiderFree == sp.pc \in {"idle", "returned", "raised"}

\* crawl(url) called directly, to its await or to its raise
Crawl(u) ==
    /\ SpiderFree
    /\ sp' = IF Rejects(u)
             THEN [IdleSpider EXCEPT !.op = "crawl", !.pc = "raised", !.url = u,
                                     !.error = "ValueError"]
             ELSE Fetching([IdleSpider EXCEPT !.op = "crawl"], "fetch", u)
    /\ UNCHANGED <<clock, rlVars, rmVars, tsVars, qVars, fnVars>>

\* make_request of a direct crawl returns or raises: lines 39-49
CrawlRespond(o, content) ==
    /\ sp.pc = "fetch"
    /\ sp' = IF o = "ok"
             THEN [sp EXCEPT !.pc = "returned", !.html = sp.requests, !.oks = @ + 1,
                             !.got = content,
                             !.value = CrawlRecord(sp.url, content, clock)]
             ELSE [sp EXCEPT !.pc = "raised", !.error = "RequestError"]
    /\ UNCHANGED <<clock, rlVars, rmVars, tsVars, qVars, fnVars>>

\* crawl_with_pagination(base_url, page_parser, start_page, max_pages) to its
\* first await or to its return
CrawlWithPagination(base_url, start_page, max_pages) ==
    /\ SpiderFree
    /\ sp' = NextPage([IdleSpider EXCEPT !.op = "pagination", !.base = base_url,
                                         !.start = start_page, !.max = max_pages,
                                         !.current = start_page])
    /\ UNCHANGED <<clock, rlVars, rmVars, tsVars, qVars, fnVars>>

\* the crawl of the page URL returns or raises; on return page_parser gives
\* urls.  The record crawl returns is never empty: `if not page_content` is
\* never taken.
PageRespond(o, urls) ==
    /\ sp.pc = "page"
    /\ sp' = IF o = "fail"
             THEN PageFailed([sp EXCEPT !.why = "page_failed", !.at = sp.current])
             ELSE LET s == [sp EXCEPT !.oks = @ + 1, !.found = urls, !.idx = 0,
                                      !.tried = <<>>, !.listed = sp.current,
                                      !.log = Append(@, Crawled("page", sp.url, sp.current, 0,
                                                                sp.requests)),
                                      !.why = IF urls = <<>> THEN "empty" ELSE @,
                                      !.at = IF urls = <<>> THEN sp.current ELSE @]
                  IN  IF StopsPagination(urls) THEN Return(s) ELSE NextChild(s)
    /\ UNCHANGED <<clock, rlVars, rmVars, tsVars, qVars, fnVars>>

\* the crawl of a child URL returns or raises
ChildRespond(o) ==
    /\ sp.pc = "child"
    /\ sp' = NextChild(IF o = "ok" THEN ChildCrawled(sp) ELSE ChildFailed(sp, "fail"))
    /\ UNCHANGED <<clock, rlVars, rmVars, tsVars, qVars, fnVars>>

\* CancelledError raised at the await of make_request in crawl: `except
\* Exception` of crawl (lines 47-49) re-raises what it catches; in
\* crawl_with_pagination a child crawl is in the try of lines 95-101
\* (continue), the page crawl in the try of lines 82-107 (break)
CancelledSpider(s) ==
    IF s.pc \in {"page", "child"} /\ Catches("Exception", "CancelledError")
    THEN IF s.pc = "child"
         THEN NextChild(ChildFailed(s, "cancelled"))
         ELSE PageFailed([s EXCEPT !.why = "page_failed", !.at = s.current])
    ELSE [s EXCEPT !.pc = "raised", !.error = "CancelledError"]

\* task.cancel() on the task awaiting crawl or crawl_with_pagination
CancelSpider ==
    /\ sp.pc \in {"fetch", "page", "child"}
    /\ sp' = CancelledSpider(sp)
    /\ UNCHANGED <<clock, rlVars, rmVars, tsVars, qVars, fnVars>>

InitSpider == sp = IdleSpider

NextSpiderRespond ==
    \/ \E o \in FetchOutcomes, content \in Documents : CrawlRespond(o, content)
    \/ \E o \in FetchOutcomes, urls \in ParserOutputs : PageRespond(o, urls)
    \/ \E o \in FetchOutcomes : ChildRespond(o)

NextSpider ==
    \/ \E u \in CrawlUrls : Crawl(u)
    \/ \E b \in BaseUrls, s \in StartPages, m \in MaxPagesValues : CrawlWithPagination(b, s, m)
    \/ NextSpiderRespond

\* one task at a time calls make_request or the spider, and may be cancelled
RequestIdle == \A c \in RequestCallers : req[c].pc \notin {"request", "sleep"}

NextCancelRequest ==
    \/ \E cls \in {"crawler_core", "core"} : NewRequestManager(cls)
    \/ \E c \in RequestCallers : MakeRequest(c, NoHeaders)
    \/ \E c \in RequestCallers, o \in Outcomes : Respond(c, o)
    \/ \E c \in RequestCallers : SleepDone(c)
    \/ \E c \in RequestCallers : CancelRequest(c)

\* crawls of one listing, of at most two pages
NextCancelSpider ==
    \/ Crawl(ListUrl)
    \/ \E m \in 1..2 : CrawlWithPagination(ListUrl, 1, m)
    \/ NextSpiderRespond
    \/ CancelSpider

\* the caller uses the request manager directly, then the spider
NextCancellation ==
    \/ sp = IdleSpider /\ NextCancelRequest
    \/ RequestIdle /\ NextCancelSpider

(***************************************************************************)
(* ContentAnalyzer (quant_crawler/crawler_core/content_analyzer.py).       *)
(* A page is the sequence of its elements in document order, each with     *)
(* its tag name, id ("" when absent), list of classes, the length of its   *)
(* own stripped text and the position of its parent (0: top level).        *)
(* Scores are exact fractions <<numerator, denominator>> in lowest terms.  *)
(***************************************************************************)
RECURSIVE Gcd(_, _)
Gcd(a, b) == IF b = 0 THEN a ELSE Gcd(b, a % b)
Rat(n, d) == LET g == Gcd(n, d) IN <<n \div g, d \div g>>
RatMul(a, b) == Rat(a[1] * b[1], a[2] * b[2])
RatLess(a, b) == a[1] * b[2] < b[1] * a[2]
\* min(a, b) of Python: b only if b < a
RatMin(a, b) == IF RatLess(b, a) THEN b ELSE a

Element(name, id, class, text) == [name |-> name, id |-> id, class |-> class, text |-> text]
ElementShapes ==
    {Element("article", "", <<>>, 0),
     Element("article", "", <<"post">>, 120),
     Element("article", "hero", <<"wide">>, 0),
     Element("div", "", <<"list", "next">>, 0),
     Element("div", "", <<>>, 0),
     Element("li", "", <<>>, 60),
     Element("nav", "top", <<>>, 0),
     Element("p", "", <<>>, 2000)}

\* the positions a new element may hang under: the last element or one of
\* its ancestors, or the top level
RECURSIVE Ancestors(_, _)
Ancestors(parents, i) ==
    IF i = 0 \/ parents[i] = 0 THEN {} ELSE {parents[i]} \cup Ancestors(parents, parents[i])
IsDocumentOrder(parents) ==
    \A i \in DOMAIN parents :
        parents[i] = 0 \/ (i > 1 /\ parents[i] \in {i - 1} \cup Ancestors(parents, i - 1))
ParentVectors(n) == {v \in [1..n -> 0..n] : IsDocumentOrder(v)}

MaxElements == 2
\* an article of one paragraph and a list of sixteen items
FeedPage ==
    [i \in 1..19 |->
        CASE i = 1 -> [name |-> "article", id |-> "", class |-> <<"post">>, text |-> 0,
                       parent |-> 0]
          [] i = 2 -> [name |-> "p", id |-> "", class |-> <<>>, text |-> 2000, parent |-> 1]
          [] i = 3 -> [name |-> "ul", id |-> "", class |-> <<>>, text |-> 0, parent |-> 0]
          [] OTHER -> [name |-> "li", id |-> "", class |-> <<>>, text |-> 10, parent |-> 3]]
Pages ==
    {FeedPage} \cup
    UNION {{[i \in 1..n |-> [name |-> shapes[i].name, id |-> shapes[i].id,
                             class |-> shapes[i].class, text |-> shapes[i].text,
                             parent |-> parents[i]]] :
                shapes \in [1..n -> ElementShapes],
                parents \in ParentVectors(n)} :
           n \in 0..MaxElements}

Parents(page) == [i \in DOMAIN page |-> page[i].parent]
Descendants(page, i) == {k \in DOMAIN page : i \in Ancestors(Parents(page), k)}
RECURSIVE SumText(_, _)
SumText(page, S) ==
    IF S = {} THEN 0
    ELSE LET k == CHOOSE x \in S : TRUE IN page[k].text + SumText(page, S \ {k})

\* soup.find_all(names): the positions of the elements with these names
Positions(page) == [i \in DOMAIN page |-> i]
FindAll(page, names) == SelectSeq(Positions(page), LAMBDA i : page[i].name \in names)

\* sep.join(words)
RECURSIVE Join(_, _)
Join(words, sep) ==
    IF words = <<>> THEN ""
    ELSE IF Len(words) = 1 THEN words[1]
    ELSE words[1] \o sep \o Join(Tail(words), sep)

RECURSIVE Concat(_)
Concat(lists) == IF lists = <<>> THEN <<>> ELSE Head(lists) \o Concat(Tail(lists))

\* lines 166-174: the path from the element up to the document or to the
\* first ancestor with an id, listed from the top
RECURSIVE Path(_, _)
Path(page, j) ==
    IF j = 0 THEN <<>>
    ELSE IF page[j].id # "" THEN <<"#" \o page[j].id>>
    ELSE LET siblings == {k \in 1..(j - 1) : /\ page[k].parent = page[j].parent
                                             /\ page[k].name = page[j].name}
         IN  Append(Path(page, page[j].parent),
                    page[j].name \o ":nth-of-type(" \o Str(Cardinality(siblings) + 1) \o ")")

\* _get_unique_selector(tag)
GetUniqueSelector(page, i) ==
    IF page[i].id # "" THEN "#" \o page[i].id
    ELSE IF page[i].class # <<>> THEN page[i].name \o "." \o Join(page[i].class, ".")
    ELSE Join(Path(page, i), " > ")

\* _get_element_pattern(element): its name and the names of its child tags
GetElementPattern(page, i) ==
    Join(<<page[i].name>> \o
         [k \in DOMAIN SelectSeq(Positions(page), LAMBDA c : page[c].parent = i) |->
             page[SelectSeq(Positions(page), LAMBDA c : page[c].parent = i)[k]].name], ",")

ContentPattern(selector, content_type, importance_score, features) ==
    [selector |-> selector, content_type |-> content_type,
     importance_score |-> importance_score, features |-> features]
Feature(key, value) == [k \in {key} |-> value]

\* semantic_elements, lines 75-81, in the order of the dict
SemanticElements ==
    <<[element |-> "article", base_score |-> Rat(9, 10)],
      [element |-> "main", base_score |-> Rat(8, 10)],
      [element |-> "section", base_score |-> Rat(7, 10)],
      [element |-> "nav", base_score |-> Rat(6, 10)],
      [element |-> "aside", base_score |-> Rat(4, 10)]>>

\* _analyze_structure
AnalyzeStructure(page) ==
    Concat([e \in DOMAIN SemanticElements |->
              LET tags == FindAll(page, {SemanticElements[e].element})
              IN  [t \in DOMAIN tags |->
                     ContentPattern(GetUniqueSelector(page, tags[t]),
                                    SemanticElements[e].element,
                                    SemanticElements[e].base_score,
                                    Feature("semantic", TRUE))]])

\* CONTENT_TYPES, lines 33-39, in the order of the dict
ContentTypes ==
    <<[content_type |-> "article",
       keywords |-> {"article", "post", "content", "main-content", "detail"}],
      [content_type |-> "list", keywords |-> {"list", "feed", "timeline", "cards", "items"}],
      [content_type |-> "pagination", keywords |-> {"pagination", "pages", "next", "prev"}],
      [content_type |-> "comments", keywords |-> {"comments", "responses", "replies"}],
      [content_type |-> "sidebar", keywords |-> {"sidebar", "related", "recommended"}]>>
KeywordScore == Rat(7, 10)

\* _identify_content_areas
IdentifyContentAreas(page) ==
    LET elements == SelectSeq(Positions(page), LAMBDA i : page[i].class # <<>>)
        Classes(i) == {page[i].class[k] : k \in DOMAIN page[i].class}
        Matching(i) == SelectSeq(ContentTypes, LAMBDA ct : ct.keywords \cap Classes(i) # {})
    IN  Concat([e \in DOMAIN elements |->
                  [m \in DOMAIN Matching(elements[e]) |->
                     ContentPattern(GetUniqueSelector(page, elements[e]),
                                    Matching(elements[e])[m].content_type,
                                    KeywordScore,
                                    Feature("matched_keywords",
                                            Matching(elements[e])[m].keywords
                                                \cap Classes(elements[e])))]])

DensityThreshold == 50
DensityCap == Rat(9, 10)
TextLength(page, i) == SumText(page, {i} \cup Descendants(page, i))
TagsCount(page, i) == Cardinality(Descendants(page, i))
\* tags_count > 0 and text_length / tags_count > 50
IsDense(page, i) ==
    /\ TagsCount(page, i) > 0
    /\ RatLess(Rat(DensityThreshold, 1), Rat(TextLength(page, i), TagsCount(page, i)))

\* _analyze_text_density
AnalyzeTextDensity(page) ==
    LET dense == SelectSeq(FindAll(page, {"div", "article", "section"}),
                           LAMBDA i : IsDense(page, i))
    IN  [e \in DOMAIN dense |->
           LET density == Rat(TextLength(page, dense[e]), TagsCount(page, dense[e]))
           IN  ContentPattern(GetUniqueSelector(page, dense[e]), "content",
                              RatMin(DensityCap, RatMul(density, Rat(1, 1000))),
                              Feature("text_density", density))]

RepetitionThreshold == 2
RepetitionCap == Rat(8, 10)
\* count > 2
RepeatsOnce(count) == count > 0
Repeats(count) == count > RepetitionThreshold

\* _find_repeated_patterns: the Counter keeps the patterns in the order in
\* which they first occur
FindRepeatedPatterns(page) ==
    LET elements == FindAll(page, {"div", "li", "article"})
        Pat(e) == GetElementPattern(page, elements[e])
        Count(e) == Cardinality({f \in DOMAIN elements : Pat(f) = Pat(e)})
        firsts == SelectSeq([e \in DOMAIN elements |-> e],
                            LAMBDA e : /\ \A f \in 1..(e - 1) : Pat(f) # Pat(e)
                                       /\ Repeats(Count(e)))
    IN  [k \in DOMAIN firsts |->
           ContentPattern(Pat(firsts[k]), "list",
                          RatMin(RepetitionCap, Rat(Count(firsts[k]), 20)),
                          Feature("repetition_count", Count(firsts[k])))]

\* line 154: min(1.0, score)
ClampNone(score) == score
Clamp(score) == RatMin(Rat(1, 1), score)

\* the body of the loop of _score_patterns
ScorePattern(pattern) ==
    LET a == IF "semantic" \in DOMAIN pattern.features
             THEN RatMul(pattern.importance_score, Rat(12, 10)) ELSE pattern.importance_score
        b == IF "text_density" \in DOMAIN pattern.features THEN RatMul(a, Rat(11, 10)) ELSE a
        c == IF "repetition_count" \in DOMAIN pattern.features THEN RatMul(b, Rat(11, 10)) ELSE b
    IN  [pattern EXCEPT !.importance_score = Clamp(c)]

\* the four passes in the order of analyze_page, lines 59-66
Emitted(page) ==
    AnalyzeStructure(page) \o IdentifyContentAreas(page) \o AnalyzeTextDensity(page)
        \o FindRepeatedPatterns(page)

\* sorted(patterns, key=importance_score, reverse=True): stable, patterns of
\* equal score keep their order
RECURSIVE InsertDescending(_, _)
InsertDescending(sorted, p) ==
    IF sorted = <<>> THEN <<p>>
    ELSE IF RatLess(Head(sorted).importance_score, p.importance_score)
         THEN <<p>> \o sorted
         ELSE <<Head(sorted)>> \o InsertDescending(Tail(sorted), p)
RECURSIVE SortedDescending(_)
SortedDescending(patterns) ==
    IF patterns = <<>> THEN <<>>
    ELSE InsertDescending(SortedDescending(SubSeq(patterns, 1, Len(patterns) - 1)),
                          patterns[Len(patterns)])
\* line 70
SortedNot(patterns) == patterns
Sorted(patterns) == SortedDescending(patterns)

\* the patterns with the position at which each was appended to self.patterns
Numbered(patterns) ==
    [n \in DOMAIN patterns |->
        [selector |-> patterns[n].selector, content_type |-> patterns[n].content_type,
         importance_score |-> patterns[n].importance_score,
         features |-> patterns[n].features, n |-> n]]

\* The ContentPattern objects live on a heap: analyzer.heap[a] is the object
\* at address a, and a list of patterns is a list of addresses.
NoAnalysis == [called |-> FALSE, html |-> <<>>, emitted |-> <<>>, patterns |-> <<>>,
               result |-> <<>>, heap |-> <<>>, self_patterns |-> <<>>, returned |-> <<>>]

Deref(heap, refs) == [k \in DOMAIN refs |-> heap[refs[k]]]

\* line 57: self.patterns = []
PatternsKept(patterns) == patterns
PatternsReset(patterns) == <<>>

\* lines 142-154: _score_patterns rewrites the score of every object of
\* self.patterns in place
ScorePatterns(heap, refs) ==
    [a \in DOMAIN heap |->
        IF \E k \in DOMAIN refs : refs[k] = a THEN ScorePattern(heap[a]) ELSE heap[a]]

\* line 70: a new list of the objects of self.patterns, in the order of sorted()
SortedRefs(heap, refs) ==
    LET keyed == [k \in DOMAIN refs |->
                    [ref |-> refs[k], importance_score |-> heap[refs[k]].importance_score]]
        ranked == Sorted(keyed)
    IN  [k \in DOMAIN ranked |-> ranked[k].ref]

\* analyze_page(html)
AnalyzePage(html) ==
    LET kept == PatternsReset(analyzer.self_patterns)
        emitted == Numbered(Emitted(html))
        refs == kept \o [n \in DOMAIN emitted |-> Len(analyzer.heap) + n]
        heap == ScorePatterns(analyzer.heap \o emitted, refs)
        result == SortedRefs(heap, refs)
    IN  /\ analyzer' = [called |-> TRUE, html |-> html, emitted |-> emitted,
                        patterns |-> Deref(heap, refs), result |-> Deref(heap, result),
                        heap |-> heap, self_patterns |-> refs,
                        returned |-> Append(analyzer.returned,
                                            [html |-> html, refs |-> result,
                                             value |-> Deref(heap, result)])]
        /\ UNCHANGED <<clock, rlVars, rmVars, tsVars, qVars, spVars, validated, suggested>>

\* one call on any page
NextContentAnalyzer == ~analyzer.called /\ \E html \in Pages : AnalyzePage(html)

\* several calls on one analyzer
MaxAnalyses == 3
AnalyzedPages ==
    {<<>>, FeedPage,
     <<[name |-> "article", id |-> "", class |-> <<>>, text |-> 0, parent |-> 0]>>,
     <<[name |-> "div", id |-> "", class |-> <<"list", "next">>, text |-> 0, parent |-> 0],
       [name |-> "article", id |-> "", class |-> <<"post">>, text |-> 120, parent |-> 1]>>,
     <<[name |-> "nav", id |-> "top", class |-> <<>>, text |-> 0, parent |-> 0],
       [name |-> "p", id |-> "", class |-> <<>>, text |-> 2000, parent |-> 1]>>}
NextAnalyzerCalls ==
    Len(analyzer.returned) < MaxAnalyses /\ \E html \in AnalyzedPages : AnalyzePage(html)

\* line 208: pattern.importance_score < 0.3
IgnoreThreshold == Rat(3, 10)
IgnoredNever(pattern) == FALSE
Ignored(pattern) == RatLess(pattern.importance_score, IgnoreThreshold)

\* dict[key].append(value)
ListAppend(dict, key, value) == [dict EXCEPT ![key] = Append(@, value)]

\* suggestions, lines 200-205
NoSuggestionsYet ==
    [k \in {"content_selectors", "list_selectors", "pagination_selectors",
            "ignore_selectors"} |-> <<>>]

\* the body of the loop of get_crawl_suggestions, lines 208-217
Suggest(suggestions, pattern) ==
    IF Ignored(pattern)
    THEN ListAppend(suggestions, "ignore_selectors", pattern.selector)
    ELSE IF pattern.content_type \in {"article", "content"}
    THEN ListAppend(suggestions, "content_selectors", pattern.selector)
    ELSE IF pattern.content_type \in {"list", "feed"}
    THEN ListAppend(suggestions, "list_selectors", pattern.selector)
    ELSE IF pattern.content_type = "pagination"
    THEN ListAppend(suggestions, "pagination_selectors", pattern.selector)
    ELSE suggestions

RECURSIVE GetCrawlSuggestions(_)
GetCrawlSuggestions(patterns) ==
    IF patterns = <<>> THEN NoSuggestionsYet
    ELSE Suggest(GetCrawlSuggestions(SubSeq(patterns, 1, Len(patterns) - 1)),
                 patterns[Len(patterns)])

\* the patterns a caller may pass
MaxPatterns == 2
PatternInputs ==
    {ContentPattern(sel, type, score, Feature("semantic", TRUE)) :
        sel \in {"#a", "div.b"},
        type \in {"article", "content", "list", "feed", "pagination", "comments"},
        score \in {Rat(1, 5), Rat(29, 100), Rat(3, 10), Rat(1, 2)}}
PatternLists == UNION {[1..n -> PatternInputs] : n \in 0..MaxPatterns}

NoSuggestions == [called |-> FALSE, patterns |-> <<>>, suggestions |-> NoSuggestionsYet]

\* get_crawl_suggestions(patterns); one call is followed
GetCrawlSuggestionsCall(patterns) ==
    /\ ~suggested.called
    /\ suggested' = [called |-> TRUE, patterns |-> patterns,
                     suggestions |-> GetCrawlSuggestions(patterns)]
    /\ UNCHANGED <<clock, rlVars, rmVars, tsVars, qVars, spVars, validated, analyzer>>

NextSuggestions ==
    ~suggested.called /\ \E patterns \in PatternLists : GetCrawlSuggestionsCall(patterns)

InitRateLimiter ==
    /\ rates = << >>
    /\ last_request = << >>
    /\ acq = [p \in Acquirers |-> IdleAcq]
    /\ done = [d \in Domains |-> <<>>]
    /\ everOverlap = [d \in Domains |-> FALSE]
    /\ calls = 0

NextRateLimiter ==
    \/ \E p \in Acquirers, d \in Domains : AcquireStart(p, d)
    \/ \E p \in Acquirers : AcquireWake(p)
    \/ \E d \in Domains, r \in RateValues : UpdateRate(d, r)
    \/ AdvanceClock

Init ==
    /\ clock = 0
    /\ InitRateLimiter
    /\ InitRequestManager
    /\ InitTaskScheduler
    /\ InitQueue
    /\ InitSpider
    /\ validated = NoValidation
    /\ analyzer = NoAnalysis
    /\ suggested = NoSuggestions

SpecRateLimiter == Init /\ [][NextRateLimiter]_vars
SpecRequestManager == Init /\ [][NextRequestManager]_vars
SpecRequestConfig == Init /\ [][NextRequestConfig]_vars
SpecRequestSession == Init /\ [][NextRequestSession]_vars
SpecTaskScheduler == Init /\ [][NextTaskScheduler]_vars
SpecSchedulerRestart == Init /\ [][NextSchedulerRestart]_vars
SpecQueue == Init /\ [][NextQueue]_vars
SpecSpider == Init /\ [][NextSpider]_vars
SpecValidateUrl == Init /\ [][NextValidateUrl]_vars
SpecContentAnalyzer == Init /\ [][NextContentAnalyzer]_vars
SpecSuggestions == Init /\ [][NextSuggestions]_vars
SpecAnalyzerCalls == Init /\ [][NextAnalyzerCalls]_vars
SpecCancellation == Init /\ [][NextCancellation]_vars
\* every make_request that was called returns or raises in the end
FairSpecSpider == SpecSpider /\ WF_vars(NextSpiderRespond)

Next == NextRateLimiter \/ NextRequestConfig \/ NextRequestSession \/ NextTaskScheduler
           \/ NextSchedulerRestart \/ NextQueue \/ NextSpider \/ NextCancellation
           \/ NextValidateUrl \/ NextContentAnalyzer \/ NextSuggestions
Spec == Init /\ [][Next]_vars

\* two consecutive completions on d are at least 1/R apart
Separated(d) ==
    (d \in DOMAIN rates /\ Len(done[d]) = 2) => done[d][2] - done[d][1] >= Interval(rates[d])

\* C1: for a domain configured with rate R, any two consecutive completions of
\* acquire calls that never overlapped one another are at least 1/R apart.
C1_SequentialSeparated == \A d \in Domains : ~everOverlap[d] => Separated(d)

\* C2: when acquire calls on one configured domain interleave at the sleep,
\* their completions are still at least 1/R apart.
C2_ConcurrentSeparated == \A d \in Domains : everOverlap[d] => Separated(d)

(***************************************************************************)
(* RequestManager: retry and backoff                                       *)
(***************************************************************************)
AllFail(log) == \A i \in 1..Len(log) : log[i] \in Failures
Finished(r) == r.pc \in {"returned", "raised"}

RECURSIVE SumSeq(_)
SumSeq(q) == IF q = <<>> THEN 0 ELSE q[1] + SumSeq(Tail(q))

\* C3: a target that fails on attempts 1..N-1 and succeeds on attempt N <= max_retries
\* is asked N times and no more, and make_request returns the text of the N-th
\* response: as long as every response was a failure and fewer than max_retries
\* requests were answered the call goes on, and on the first success it returns.
C3_RetrySuccess ==
    \A c \in RequestCallers :
        LET r == req[c] IN
        ~r.changed =>
            /\ (AllFail(r.log) /\ Len(r.log) < r.startMax) => ~Finished(r)
            /\ ( /\ r.log # <<>>
                 /\ Len(r.log) <= r.startMax
                 /\ r.log[Len(r.log)] = "ok"
                 /\ AllFail(SubSeq(r.log, 1, Len(r.log) - 1)) )
               => (r.pc = "returned" /\ r.value = Len(r.log) /\ r.sent = Len(r.log))

C5_ReturnsOnlySuccess ==
    \A c \in RequestCallers :
        req[c].pc = "returned" =>
            /\ req[c].log # <<>>
            /\ req[c].log[Len(req[c].log)] = "ok"
            /\ req[c].value = Len(req[c].log)

(***************************************************************************)
(* TaskScheduler: task IDs, dispatch and cancellation                      *)
(***************************************************************************)
Range(q) == {q[i] : i \in DOMAIN q}

\* C6: every ID schedule_task returns differs from every ID it returned before,
\* also from the IDs of tasks since cancelled or dispatched.
C6_UniqueIds ==
    \A i, j \in DOMAIN issued : i # j => issued[i].id # issued[j].id

\* C7: a task schedule_task accepted and cancel_task did not remove is dispatched
\* at most once, and is either still in the scheduled set or was dispatched.
C7_DispatchedExactlyOnce ==
    \A n \in DOMAIN issued :
        n \notin cancelled =>
            /\ Cardinality({i \in DOMAIN dispatched : dispatched[i] = n}) <= 1
            /\ (n \in Serials(scheduled_tasks)) # (n \in Range(dispatched))

\* C9: a pass of the running loop that reads a time >= T dispatches every
\* accepted and uncancelled task with schedule time T: no pass leaves such a task
\* undispatched.
C9_DueDispatchedAtFirstTick == missed = {}

\* C10: cancel_task(id) returns true exactly when id is in the scheduled set, it
\* returns false when the task the ID was issued for was already dispatched or
\* cancelled, and no cancelled task is dispatched.
C10_CancelResult ==
    /\ lastCancel.id # "" =>
          /\ lastCancel.result = lastCancel.known
          /\ lastCancel.gone => ~lastCancel.result
    /\ cancelled \cap Range(dispatched) = {}

InFetch == sp.pc \in {"fetch", "page", "child"}
Paginating == sp.op = "pagination"

\* C11: while a fetch issued by crawl (directly, or for a page or a child of
\* crawl_with_pagination) is under way, an acquire for the domain of its URL
\* has completed.
C11_AcquireBeforeFetch == InFetch => done[sp.url.host] # <<>>

\* C12: crawl on a URL that validate_url rejects raises ValueError at once and
\* make_request is not called.
C12_InvalidUrlRejected ==
    (sp.op = "crawl" /\ ~ValidateUrl(sp.url)) =>
        /\ sp.pc = "raised"
        /\ sp.error = "ValueError"
        /\ sp.requests = 0

\* crawl was called with ftp://a.com and with a URL that holds a space
C12_Witness ==
    /\ sp.op = "crawl"
    /\ sp.pc = "raised"
    /\ sp.url \in {FtpUrl, SpaceUrl}
    /\ sp.requests = 0

\* C13: once page_parser has returned the empty list for page k the call has
\* returned: page k is the last page asked for, no fetch is under way, and
\* every result is of a child of a page before k.
C13_StopsOnEmptyPage ==
    (Paginating /\ sp.why = "empty") =>
        /\ sp.pc = "returned"
        /\ sp.pages # <<>> /\ sp.pages[Len(sp.pages)] = sp.at
        /\ \A i \in DOMAIN sp.pages : sp.pages[i] <= sp.at
        /\ \A i \in DOMAIN sp.results : sp.results[i].page < sp.at

\* the parser returned the empty list on the second page, with a third page
\* allowed, after a first page that gave a result
C13_Witness ==
    /\ Paginating
    /\ sp.why = "empty"
    /\ sp.at = sp.start + 1
    /\ sp.at < sp.start + sp.max - 1
    /\ sp.results # <<>>

OkPositions(tried) ==
    SelectSeq([i \in 1..Len(tried) |-> i], LAMBDA i : tried[i] = "ok")
ResultsOfPage(k) == SelectSeq(sp.results, LAMBDA r : r.page = k)

\* C14: every child URL of a page is crawled whatever became of the children
\* before it: while the list is worked through the children before the one
\* under way have all been tried, once the page is left each child has been
\* tried once, the results of the page are those of its children that
\* succeeded, in order, and the loop has moved to the next page index.
C14_ChildFailureSkipped ==
    Paginating =>
        /\ Len(sp.tried) = IF sp.pc = "child" THEN sp.idx - 1 ELSE sp.idx
        /\ (sp.pc # "child" /\ sp.found # <<>>) =>
              /\ Len(sp.tried) = Len(sp.found)
              /\ sp.current = sp.listed + 1
              /\ sp.pc = "page" \/ (sp.pc = "returned" /\ (~InRange(sp) \/ sp.why # "none"))
        /\ sp.found # <<>> =>
              /\ Len(ResultsOfPage(sp.listed)) = Len(OkPositions(sp.tried))
              /\ \A i \in DOMAIN OkPositions(sp.tried) :
                    /\ ResultsOfPage(sp.listed)[i].pos = OkPositions(sp.tried)[i]
                    /\ ResultsOfPage(sp.listed)[i].url = sp.found[OkPositions(sp.tried)[i]]

\* the first child of a page failed, the second was crawled and gave a
\* result, and the next page is being fetched
C14_Witness ==
    /\ Paginating
    /\ sp.pc = "page"
    /\ Len(sp.tried) = 2
    /\ sp.tried[1] \in {"fail", "invalid"}
    /\ sp.tried[2] = "ok"
    /\ sp.current = sp.listed + 1

\* C15: the step in which the crawl of a page URL fails ends the call: it
\* returns, with the results as they were before the step and no page asked
\* for beyond the failed one.
C15_PageFailureAborts ==
    [][(sp' # sp /\ Paginating' /\ sp'.why = "page_failed") =>
          /\ sp'.pc = "returned"
          /\ sp'.pages # <<>> /\ sp'.pages[Len(sp'.pages)] = sp'.at
          /\ sp'.results = (IF sp.pc = "page" THEN sp.results ELSE <<>>)
          /\ sp'.requests = (IF sp.pc = "page" THEN sp.requests ELSE 0)]_vars

\* the fetch of the second page failed, with a third page allowed, after the
\* first page gave a result
C15_Witness ==
    /\ Paginating
    /\ sp.pc = "returned"
    /\ sp.why = "page_failed"
    /\ sp.at = sp.start + 1
    /\ sp.results # <<>>
    /\ sp.at < sp.start + sp.max - 1

\* C16: a call whose every fetch failed does not return normally.
C16_OutageIsExplicit == sp.pc = "returned" => (sp.requests = 0 \/ sp.oks > 0)

\* C17: the page indices asked for are start_page, start_page + 1, ... in
\* order, each once and each below start_page + max_pages, so at most
\* max_pages of them; with max_pages <= 0 nothing is fetched and the empty
\* list is returned; and a call whose fetches all return or fail returns.
C17_PagesInRange ==
    Paginating =>
        /\ \A i \in DOMAIN sp.pages : sp.pages[i] = sp.start + i - 1
        /\ \A i \in DOMAIN sp.pages : sp.pages[i] < sp.start + sp.max
        /\ sp.max <= 0 => (sp.pc = "returned" /\ sp.requests = 0 /\ sp.results = <<>>)
        /\ sp.pc = "page" => sp.pages[Len(sp.pages)] = sp.current

C17_PagesBoundedAndTerminates ==
    /\ []C17_PagesInRange
    /\ (Paginating /\ InFetch) ~> (sp.pc = "returned")

\* every page of the range was fetched and the call returned
C17_Witness ==
    /\ Paginating
    /\ sp.pc = "returned"
    /\ sp.max = MaxPages
    /\ Len(sp.pages) = sp.max
    /\ sp.why = "none"
    /\ sp.start = 2

(***************************************************************************)
(* RequestManager: configuration, session and headers                      *)
(***************************************************************************)
\* C18: RequestManager of crawler_core/request_manager.py: whatever
\* set_retry_policy and set_proxy calls are made while a make_request call is
\* under way, the call sleeps delay * (i + 1) after its failed attempt i with
\* the delay it started with, sends every request through the proxy it started
\* with, and when every response is a failure raises after the max_retries
\* attempts it started with.
C18_InFlightUnaffected ==
    \A c \in RequestCallers :
        LET r == req[c] IN
        rmClass = "crawler_core" =>
            /\ \A i \in 1..Len(r.sleeps) : r.sleeps[i] = r.startDelay * i
            /\ r.proxyKept
            /\ (AllFail(r.log) /\ r.pc = "raised") => Len(r.log) = r.startMax

\* C19: once close() has returned the executor holds no closed session; a
\* make_request that starts while no close is under way runs on an open
\* session, one it creates if and only if the executor held none, the one
\* held otherwise; close() with no session leaves the executor as it is.
C19_SessionRecreatedAfterClose ==
    /\ (closer.pc = "idle" /\ session # 0) => session \notin closed
    /\ \A c \in RequestCallers :
          LET r == req[c] IN
          (r.pc # "idle" /\ r.quiet) =>
              /\ r.sess # 0
              /\ r.created = (r.had = 0)
              /\ r.had # 0 => r.sess = r.had
              /\ r.attempt = 0 => ~r.dead

\* C20: RequestManager of crawler_core/request_manager.py: the headers sent by
\* a make_request call are the per-call headers, and for every other name the
\* default headers; the default headers are those of __init__ after any calls.
C20_HeadersMerged ==
    rmClass = "crawler_core" =>
        /\ headers = DefaultHeaders
        /\ \A c \in RequestCallers :
              LET r == req[c] IN
              r.pc # "idle" =>
                  /\ DOMAIN r.hdrs = (DOMAIN DefaultHeaders) \cup (DOMAIN r.given)
                  /\ \A k \in DOMAIN r.given : r.hdrs[k] = r.given[k]
                  /\ \A k \in (DOMAIN DefaultHeaders) \ (DOMAIN r.given) :
                        r.hdrs[k] = DefaultHeaders[k]

\* a call that passed its own User-Agent and an Accept header has returned
C20_Witness ==
    \E c \in RequestCallers :
        /\ rmClass = "crawler_core"
        /\ req[c].pc = "returned"
        /\ DOMAIN req[c].given = HeaderNames
        /\ req[c].hdrs["User-Agent"] = "bot"
        /\ headers["User-Agent"] = "Mozilla/5.0"

(***************************************************************************)
(* RateLimiter: unconfigured domains and update_rate                       *)
(***************************************************************************)
\* C21: acquire on a domain with no configured rate returns in the step of the
\* call, with rates, last_request and every other caller as they were; a time
\* is stored only for configured domains and only their callers sleep.
C21_UnlimitedAcquire ==
    /\ [](/\ DOMAIN last_request \subseteq DOMAIN rates
          /\ \A p \in Acquirers : acq[p].pc = "sleeping" => acq[p].domain \in DOMAIN rates)
    /\ [][\A p \in Acquirers, d \in Domains :
            (d \notin DOMAIN rates /\ AcquireStart(p, d)) =>
                /\ rates' = rates
                /\ last_request' = last_request
                /\ acq' = acq]_vars

\* acquire has returned on a domain with no rate while another domain has a
\* rate and a stored time
C21_Witness ==
    \E d, e \in Domains :
        /\ d \notin DOMAIN rates
        /\ done[d] # <<>>
        /\ e \in DOMAIN last_request

\* C22: update_rate(d, r) sets the rate of d to r and leaves last_request, the
\* rate of every other domain and the callers under way as they were; an
\* acquire(d) that finds a stored time returns at once only when 1/r has passed
\* since that time, and otherwise sleeps until that time plus 1/r, r being the
\* rate configured when it is called.
C22_UpdateRateFrame ==
    /\ [][\A d \in Domains, r \in RateValues :
            UpdateRate(d, r) =>
                /\ last_request' = last_request
                /\ acq' = acq
                /\ DOMAIN rates' = (DOMAIN rates) \cup {d}
                /\ rates'[d] = r
                /\ \A e \in (DOMAIN rates) \ {d} : rates'[e] = rates[e]]_vars
    /\ [][\A p \in Acquirers, d \in Domains :
            (d \in DOMAIN rates /\ d \in DOMAIN last_request /\ AcquireStart(p, d)) =>
                IF acq'[p].pc = "sleeping"
                THEN acq'[p].wake = last_request[d] + Interval(rates[d])
                ELSE clock >= last_request[d] + Interval(rates[d])]_vars
    /\ [][\A p \in Acquirers : AcquireWake(p) => clock >= acq[p].wake]_vars

\* the rate of a domain was lowered after a call on it, and a later call sleeps
\* the longer interval from the stored time
C22_Witness ==
    \E p \in Acquirers :
        /\ acq[p].pc = "sleeping"
        /\ rates[acq[p].domain] = 1
        /\ done[acq[p].domain] = <<>>
        /\ acq[p].now > last_request[acq[p].domain]
        /\ acq[p].wake = last_request[acq[p].domain] + TicksPerSecond

(***************************************************************************)
(* TaskScheduler: stop()                                                   *)
(***************************************************************************)
\* C23: after stop() is called while a start() loop sleeps in its tick, that
\* loop leaves at its next test of `running`: it goes through no further pass
\* and dispatches nothing more.
C23_StopEndsLoop == \A l \in SchedulerLoops : ~loop[l].late

(***************************************************************************)
(* Cancellation                                                            *)
(***************************************************************************)
\* C24: a cancellation delivered while make_request awaits a request or a
\* backoff sleep, or while crawl_with_pagination awaits a page or child crawl,
\* ends the call by raising CancelledError: no attempt is logged or retried,
\* no backoff is started, no child is recorded as tried, nothing is returned.
C24_CancellationPropagates ==
    [][/\ \A c \in RequestCallers :
            CancelRequest(c) =>
                /\ req'[c].pc = "raised"
                /\ req'[c].error = "CancelledError"
                /\ req'[c].log = req[c].log
                /\ req'[c].sleeps = req[c].sleeps
                /\ req'[c].attempt = req[c].attempt
                /\ req'[c].sent = req[c].sent
       /\ CancelSpider =>
                /\ sp'.pc = "raised"
                /\ sp'.error = "CancelledError"
                /\ sp'.tried = sp.tried
                /\ sp'.results = sp.results
                /\ sp'.requests = sp.requests
                /\ sp'.current = sp.current]_vars

\* make_request was cancelled in a backoff sleep after a failed attempt, and
\* a pagination was cancelled in a child crawl after it had collected a result
C24_Witness ==
    /\ \E c \in RequestCallers :
            /\ rmClass = "crawler_core"
            /\ req[c].error = "CancelledError"
            /\ Len(req[c].sleeps) = Len(req[c].log)
            /\ req[c].log # <<>>
    /\ sp.op = "pagination"
    /\ sp.error = "CancelledError"
    /\ sp.results # <<>>
    /\ sp.idx > Len(sp.tried)

(***************************************************************************)
(* Spider.crawl: the record returned                                       *)
(***************************************************************************)
\* the a elements of a document that have an href attribute
WithHref(doc) == SelectSeq(doc.anchors, LAMBDA a : a.has_href)

\* C25: a direct crawl that returned was given a valid URL, called
\* make_request once, and returns a record with the input URL, exactly the
\* content make_request returned, a timestamp, the title of the content, its
\* named meta tags (the last content of each name) and its first 100 links in
\* document order.
C25_CrawlRecord ==
    (sp.op = "crawl" /\ sp.pc = "returned") =>
        LET doc == sp.got
            parsed == sp.value.parsed_data
            hrefs == WithHref(doc)
        IN  /\ ValidateUrl(sp.url)
            /\ sp.requests = 1
            /\ DOMAIN sp.value = {"url", "html", "timestamp", "parsed_data"}
            /\ sp.value.url = sp.url
            /\ sp.value.html = doc
            /\ sp.value.timestamp = clock
            /\ doc.title = "absent" => parsed.title = ""
            /\ doc.title \notin {"absent", "empty"} => parsed.title = doc.title
            /\ \A i \in DOMAIN doc.metas :
                    (doc.metas[i].name # "" /\ doc.metas[i].content # "") =>
                        doc.metas[i].name \in DOMAIN parsed.meta_tags
            /\ \A n \in DOMAIN parsed.meta_tags :
                    \E i \in DOMAIN doc.metas :
                        /\ doc.metas[i].name = n
                        /\ doc.metas[i].content = parsed.meta_tags[n]
                        /\ \A j \in DOMAIN doc.metas :
                                (j > i /\ doc.metas[j].name = n) => doc.metas[j].content = ""
            /\ Len(parsed.links) = (IF Len(hrefs) < 100 THEN Len(hrefs) ELSE 100)
            /\ \A i \in DOMAIN parsed.links :
                    /\ parsed.links[i].url = hrefs[i].href
                    /\ parsed.links[i].text = Strip(hrefs[i].text)

\* the page of the test was crawled: title, one meta tag and two links
C25_Witness ==
    /\ sp.op = "crawl"
    /\ sp.pc = "returned"
    /\ sp.url = ListUrl
    /\ sp.value.html = TestPage
    /\ sp.value.parsed_data.title = "Test Page"
    /\ DOMAIN sp.value.parsed_data.meta_tags = {"description"}
    /\ Len(sp.value.parsed_data.links) = 2
    /\ sp.value.parsed_data.links[1].text = <<"Link", " ", "1">>

(***************************************************************************)
(* validate_url                                                            *)
(***************************************************************************)
\* the parts a well-formed URL is made of, as whole strings
FoldAll(t) == [k \in DOMAIN t |-> Fold(t[k])]
IsSchemeText(t) ==
    FoldAll(t) \in {<<"h", "t", "t", "p", ":", "/", "/">>,
                    <<"h", "t", "t", "p", "s", ":", "/", "/">>}
\* the positions of the dots of t, and the piece of t between two positions
DotsOf(t) == {k \in DOMAIN t : t[k] = "."}
IsLabelText(t) ==
    /\ Len(t) \in 1..63
    /\ IsAlnum(t[1])
    /\ IsAlnum(t[Len(t)])
    /\ \A k \in DOMAIN t : IsAlnumHyphen(t[k])
IsTldText(t) == Len(t) \in 2..6 /\ \A k \in DOMAIN t : IsLetter(t[k])
\* labels separated by dots, the last one a TLD, with an optional final dot
IsDomainText(t) ==
    LET u == IF t # <<>> /\ t[Len(t)] = "." THEN SubSeq(t, 1, Len(t) - 1) ELSE t
        cuts == {0} \cup DotsOf(u) \cup {Len(u) + 1}
        Piece(a) == SubSeq(u, a + 1, (CHOOSE b \in cuts : b > a /\ \A c \in cuts : c > a => b <= c) - 1)
    IN  /\ DotsOf(u) # {}
        /\ \A a \in cuts \ {Len(u) + 1} :
               IF \E d \in DotsOf(u) : d > a THEN IsLabelText(Piece(a)) ELSE IsTldText(Piece(a))
IsIpText(t) ==
    /\ Cardinality(DotsOf(t)) = 3
    /\ LET cuts == {0} \cup DotsOf(t) \cup {Len(t) + 1}
       IN  \A a \in cuts \ {Len(t) + 1} :
              LET b == CHOOSE b \in cuts : b > a /\ \A c \in cuts : c > a => b <= c
              IN  b - a - 1 \in 1..3 /\ \A k \in (a + 1)..(b - 1) : IsDigit(t[k])
IsHostText(t) ==
    \/ IsDomainText(t)
    \/ FoldAll(t) = <<"l", "o", "c", "a", "l", "h", "o", "s", "t">>
    \/ IsIpText(t)
IsPortText(t) ==
    t = <<>> \/ (Len(t) >= 2 /\ t[1] = ":" /\ \A k \in 2..Len(t) : IsDigit(t[k]))
\* nothing, or a path or query that starts with / or ? and has no whitespace
IsPathText(t) ==
    t = <<>> \/ (t[1] \in {"/", "?"} /\ \A k \in DOMAIN t : t[k] \notin Whitespace)

\* scheme, host, optional port, optional path or query, and nothing else
WellFormedUrl(s) ==
    \E a \in 0..Len(s) : \E b \in a..Len(s) : \E c \in b..Len(s) :
        /\ IsSchemeText(SubSeq(s, 1, a))
        /\ IsHostText(SubSeq(s, a + 1, b))
        /\ IsPortText(SubSeq(s, b + 1, c))
        /\ IsPathText(SubSeq(s, c + 1, Len(s)))

\* a string that starts with scheme://
HasScheme(s, word) ==
    /\ Len(s) >= Len(word) + 3
    /\ FoldAll(SubSeq(s, 1, Len(word) + 3)) = word \o <<":", "/", "/">>

\* C26: validate_url returns true only for a string made of the scheme http
\* or https in any case, a domain with TLD or localhost or a dotted IPv4
\* address, an optional port and an optional path or query; it returns false
\* for the empty string, for a string without scheme and for the scheme ftp.
C26_ValidOnlyWellFormed ==
    validated.called =>
        /\ validated.valid => WellFormedUrl(validated.url)
        /\ validated.url = <<>> => ~validated.valid
        /\ (~HasScheme(validated.url, <<"h", "t", "t", "p">>)
              /\ ~HasScheme(validated.url, <<"h", "t", "t", "p", "s">>)) => ~validated.valid

(***************************************************************************)
(* ContentAnalyzer                                                         *)
(***************************************************************************)
Scores(patterns) == {patterns[i].importance_score : i \in DOMAIN patterns}
HasFeature(patterns, key) == \E i \in DOMAIN patterns : key \in DOMAIN patterns[i].features

\* C27: every pattern analyze_page returns has a score from 0 to 1, whichever
\* of the semantic, text-density and repetition multipliers it went through.
C27_ScoreInUnitInterval ==
    analyzer.called =>
        \A i \in DOMAIN analyzer.result :
            LET score == analyzer.result[i].importance_score
            IN  score[2] > 0 /\ 0 <= score[1] /\ score[1] <= score[2]

\* a page gave patterns of all three kinds, one of them capped at 1.0
C27_Witness ==
    /\ analyzer.called
    /\ HasFeature(analyzer.result, "semantic")
    /\ HasFeature(analyzer.result, "text_density")
    /\ HasFeature(analyzer.result, "repetition_count")
    /\ <<1, 1>> \in Scores(analyzer.result)
    /\ \E i \in DOMAIN analyzer.emitted :
          /\ analyzer.emitted[i].importance_score = <<9, 10>>
          /\ "semantic" \in DOMAIN analyzer.emitted[i].features

\* C28: the list analyze_page returns is in order of non-increasing final
\* score, and every pattern appended by the four passes is in it exactly once,
\* with its final score.
C28_SortedPermutation ==
    analyzer.called =>
        /\ \A i, j \in DOMAIN analyzer.result :
              i < j => ~(analyzer.result[i].importance_score[1]
                            * analyzer.result[j].importance_score[2]
                         < analyzer.result[j].importance_score[1]
                            * analyzer.result[i].importance_score[2])
        /\ Len(analyzer.result) = Len(analyzer.emitted)
        /\ \A n \in DOMAIN analyzer.emitted :
              /\ Cardinality({i \in DOMAIN analyzer.result : analyzer.result[i].n = n}) = 1
              /\ \A i \in DOMAIN analyzer.result :
                    analyzer.result[i].n = n =>
                        /\ analyzer.result[i].selector = analyzer.emitted[n].selector
                        /\ analyzer.result[i].content_type = analyzer.emitted[n].content_type
                        /\ analyzer.result[i].features = analyzer.emitted[n].features
                        /\ analyzer.result[i] = analyzer.patterns[n]

\* at least three patterns were appended and a later one is returned before
\* an earlier one
C28_Witness ==
    /\ analyzer.called
    /\ Len(analyzer.result) >= 3
    /\ \E i, j \in DOMAIN analyzer.result : i < j /\ analyzer.result[i].n > analyzer.result[j].n
    /\ Cardinality(Scores(analyzer.result)) >= 3

\* a page that is one article element with no descendants
OneArticle(page) == Len(page) = 1 /\ page[1].name = "article"
\* the result for such a page: one pattern, "article", 1.0
OneArticlePattern ==
    /\ Len(analyzer.result) = 1
    /\ analyzer.result[1].content_type = "article"
    /\ analyzer.result[1].importance_score = <<1, 1>>
    /\ \A i \in DOMAIN analyzer.emitted :
          /\ "text_density" \notin DOMAIN analyzer.emitted[i].features
          /\ "repetition_count" \notin DOMAIN analyzer.emitted[i].features
AllKeywords == UNION {ContentTypes[k].keywords : k \in DOMAIN ContentTypes}

\* C29 as stated: for a page that is one article element with no descendants,
\* analyze_page returns exactly one pattern, of content_type "article" and
\* score 1.0, and the density and repetition passes append nothing.
C29_OneArticleAsStated ==
    (analyzer.called /\ OneArticle(analyzer.html)) => OneArticlePattern

\* C29: for a page that is one article element with no descendants and with no
\* class that is a keyword of CONTENT_TYPES, analyze_page returns exactly one
\* pattern, of content_type "article" and score 1.0 (0.9 times 1.2, capped),
\* and the density and repetition passes append nothing.
C29_OneArticle ==
    (/\ analyzer.called
     /\ OneArticle(analyzer.html)
     /\ \A k \in DOMAIN analyzer.html[1].class : analyzer.html[1].class[k] \notin AllKeywords)
        => /\ OneArticlePattern
           /\ analyzer.emitted[1].importance_score = <<9, 10>>

\* the page <article></article> was analysed
C29_Witness ==
    /\ analyzer.called
    /\ OneArticle(analyzer.html)
    /\ analyzer.html[1].class = <<>>
    /\ analyzer.html[1].id = ""
    /\ Len(analyzer.result) = 1
    /\ analyzer.result[1].selector = "article:nth-of-type(1)"

\* the bucket the pattern belongs to: score < 0.3 ignore, else by content_type
BucketOf(pattern) ==
    IF pattern.importance_score[1] * 10 < 3 * pattern.importance_score[2]
    THEN "ignore_selectors"
    ELSE CASE pattern.content_type \in {"article", "content"} -> "content_selectors"
           [] pattern.content_type \in {"list", "feed"} -> "list_selectors"
           [] pattern.content_type = "pagination" -> "pagination_selectors"
           [] OTHER -> "none"
SelectorsOf(patterns) == [i \in DOMAIN patterns |-> patterns[i].selector]

\* C30: get_crawl_suggestions puts the selector of each pattern in at most one
\* bucket: each bucket holds, in order, the selectors of exactly the patterns
\* that belong to it, a pattern of score < 0.3 belonging to ignore_selectors
\* whatever its content_type, and a pattern of another content_type to none.
C30_OneBucketEach ==
    suggested.called =>
        /\ DOMAIN suggested.suggestions =
              {"content_selectors", "list_selectors", "pagination_selectors", "ignore_selectors"}
        /\ \A b \in DOMAIN suggested.suggestions :
              suggested.suggestions[b] =
                  SelectorsOf(SelectSeq(suggested.patterns, LAMBDA q : BucketOf(q) = b))

\* a pagination pattern of score 0.2 was ignored and a pagination pattern of
\* score 0.5 suggested
C30_Witness ==
    /\ suggested.called
    /\ Len(suggested.patterns) = 2
    /\ suggested.patterns[1].content_type = "pagination"
    /\ suggested.patterns[1].importance_score = <<1, 5>>
    /\ suggested.patterns[2].content_type = "pagination"
    /\ suggested.patterns[2].importance_score = <<1, 2>>
    /\ suggested.suggestions["ignore_selectors"] = <<suggested.patterns[1].selector>>
    /\ suggested.suggestions["pagination_selectors"] = <<suggested.patterns[2].selector>>
    /\ suggested.suggestions["content_selectors"] = <<>>
    /\ suggested.suggestions["list_selectors"] = <<>>

\* C31: the list analyze_page returns depends only on its html argument: two
\* calls on the same HTML, whatever calls lie between them, return equal
\* ranked lists, and the patterns a call returned stay as they were returned
\* through every later call.
C31_DependsOnlyOnHtml ==
    /\ \A i, j \in DOMAIN analyzer.returned :
          analyzer.returned[i].html = analyzer.returned[j].html
              => analyzer.returned[i].value = analyzer.returned[j].value
    /\ \A i \in DOMAIN analyzer.returned :
          Deref(analyzer.heap, analyzer.returned[i].refs) = analyzer.returned[i].value

\* the same page analysed first and third with another page between, each
\* call returning patterns whose scores were rewritten by the scoring pass
C31_Witness ==
    /\ Len(analyzer.returned) = 3
    /\ analyzer.returned[1].html = FeedPage
    /\ analyzer.returned[3].html = FeedPage
    /\ analyzer.returned[2].html # FeedPage
    /\ Len(analyzer.returned[2].value) >= 2
    /\ Len(analyzer.returned[1].value) >= 3
    /\ \E k \in DOMAIN analyzer.returned[1].value :
          analyzer.returned[1].value[k].importance_score
              # analyzer.emitted[analyzer.returned[1].value[k].n].importance_score

(***************************************************************************)
(* TaskScheduler: ticks, schedule_task and cancel_task                     *)
(***************************************************************************)
\* a step in which a coroutine of start() goes through a pass of its loop
IsTick == \E l \in SchedulerLoops : loop'[l].wake > loop[l].wake

\* C32: a tick dispatches only tasks whose schedule time is at most the time
\* read at the start of the tick, and every entry with a later schedule time
\* stays in the scheduled set as it was; no task is dispatched before its
\* schedule time.
C32_TickDispatchesOnlyDue ==
    [][/\ \A k \in (Len(dispatched) + 1)..Len(dispatched') :
             issued[dispatched'[k]].time <= clock
       /\ IsTick =>
             /\ \A i \in DOMAIN scheduled_tasks :
                   scheduled_tasks[i].time > clock
                       => \E j \in DOMAIN scheduled_tasks' :
                             scheduled_tasks'[j] = scheduled_tasks[i]
             /\ \A j \in DOMAIN scheduled_tasks' :
                   \E i \in DOMAIN scheduled_tasks : scheduled_tasks[i] = scheduled_tasks'[j]]_vars

\* a tick has dispatched a task and left in place a task scheduled before it
\* whose time has not come
C32_Witness ==
    \E i \in DOMAIN scheduled_tasks, k \in DOMAIN dispatched :
        /\ scheduled_tasks[i].task < dispatched[k]
        /\ scheduled_tasks[i].time > clock
        /\ issued[scheduled_tasks[i].task].time > clock

\* C33: schedule_task adds exactly one entry to the scheduled set and leaves
\* every entry that was scheduled before (its ID, task and schedule time) as
\* it was, whatever calls and dispatches came before.
C33_ScheduleTaskFrame ==
    [][Len(issued') > Len(issued) =>
          /\ Len(scheduled_tasks') = Len(scheduled_tasks) + 1
          /\ \A i \in DOMAIN scheduled_tasks :
                \E j \in DOMAIN scheduled_tasks' : scheduled_tasks'[j] = scheduled_tasks[i]]_vars

\* C34: cancel_task(id) removes no task but the one schedule_task returned id
\* for: an ID whose task was already cancelled or dispatched cannot be used
\* to cancel a task scheduled later.
C34_CancelOnlyOwnTask ==
    [][\A n \in cancelled' \ cancelled :
          \A m \in DOMAIN issued : issued[m].id = issued[n].id => m = n]_vars

\* a coroutine of start() that is in its loop and has not been told to stop
\* since its last pass
Dispatching(l) == loop[l].pc = "sleeping" /\ (~loop[l].stopped \/ loop[l].late)

\* C36: at most one dispatch loop is active per scheduler at any time, also
\* when start() is called again after stop() before the earlier loop has
\* woken from its sleep and seen the stop.
C36_OneLoop == Cardinality({l \in SchedulerLoops : Dispatching(l)}) <= 1

(***************************************************************************)
(* Spider: the list crawl_with_pagination returns                          *)
(***************************************************************************)
ChildrenCrawled == SelectSeq(sp.log, LAMBDA e : e.kind = "child")
PagesCrawled == SelectSeq(sp.log, LAMBDA e : e.kind = "page")

\* C37: the list crawl_with_pagination returns holds exactly the results of
\* the child URLs that were crawled successfully, ordered by page index and
\* within a page by the order page_link_parser gave; the result of the fetch
\* of a page index is never in it.
C37_ResultsAreChildren ==
    Paginating =>
        /\ Len(sp.results) = Len(ChildrenCrawled)
        /\ \A i \in DOMAIN sp.results :
              /\ sp.results[i].url = ChildrenCrawled[i].url
              /\ sp.results[i].html = ChildrenCrawled[i].html
        /\ \A i, j \in DOMAIN sp.results :
              i < j => \/ sp.results[i].page < sp.results[j].page
                       \/ /\ sp.results[i].page = sp.results[j].page
                          /\ sp.results[i].pos < sp.results[j].pos
        /\ \A i \in DOMAIN sp.results, k \in DOMAIN PagesCrawled :
              sp.results[i].html # PagesCrawled[k].html

\* the call has returned the results of children of two pages, two of them
\* of one page, and the first child of a page is not among them
C37_Witness ==
    /\ Paginating
    /\ sp.pc = "returned"
    /\ Len(PagesCrawled) >= 2
    /\ \E i, j \in DOMAIN sp.results : sp.results[i].page < sp.results[j].page
    /\ \E i, j \in DOMAIN sp.results :
          sp.results[i].page = sp.results[j].page /\ sp.results[i].pos < sp.results[j].pos
    /\ \E i \in DOMAIN sp.results :
          /\ sp.results[i].pos = 2
          /\ \A j \in DOMAIN sp.results :
                sp.results[j].page = sp.results[i].page => sp.results[j].pos # 1

(***************************************************************************)
(* RequestManager: close() and calls under way                             *)
(***************************************************************************)
\* C38: RequestManager of crawler_core/request_manager.py: however close()
\* and make_request calls interleave, no request is issued on a session that
\* close() has begun to close or has cleared: neither by a call that starts
\* while close() is suspended nor by a call under way that retries after it.
C38_NoRequestOnClosedSession ==
    rmClass = "crawler_core" => \A c \in RequestCallers : ~req[c].dead

(***************************************************************************)
(* QueueManager: active_tasks                                              *)
(***************************************************************************)
\* C39: after any completed push_task and pop_task calls active_tasks holds
\* exactly the tasks that are queued and not yet popped, and its size (the
\* active_tasks of get_queue_status) equals the size of the queue, also when
\* one task object is pushed more than once.
C39_ActiveTasksAreQueued ==
    /\ active_tasks = {queue[i].task : i \in DOMAIN queue}
    /\ Cardinality(active_tasks) = Len(queue)
====
